---- MODULE Spec2Model ----
(***************************************************************************)
(* Model of the duplicate-message filter of the support bot                *)
(* (src/bot/filters.py, class DuplicateMessageFilter).                     *)
(*                                                                         *)
(* A text is a sequence of one-character strings.  A message is a record   *)
(* [kind, chars]: kind "str" for a Python str, "None" for None and "int"   *)
(* for a truthy non-string value such as 123.                              *)
(***************************************************************************)
EXTENDS Integers, Sequences, FiniteSets, TLC

VARIABLES
    time_window,            \* self.time_window
    max_messages_per_user,  \* maxlen of every deque of self.user_messages
    user_messages,          \* self.user_messages: user_id -> deque of entries
    message_hashes,         \* self.message_hashes
    blocked_count,          \* self.blocked_count
    total_processed,        \* self.total_processed
    now,                    \* the value time.time() returns
    lastCall,               \* the last operation called, with its arguments
    ret,                    \* what the last operation returned, if is_duplicate
    stats,                  \* what the last operation returned, if get_stats
    recent,                 \* what the last operation returned, if get_user_recent_messages
    log,                    \* the is_duplicate calls made on the filter, where recorded
    processing_users,       \* processing_users of src/main.py
    handlers,               \* the calls of the message handlers of src/main.py, in arrival order
    applied,                \* a helper method of the filter, its arguments and what it returned
    loop_time,              \* asyncio.get_event_loop().time(), in seconds
    last_sent,              \* handle_tz_file_request.last_sent, -1 while the attribute is not set
    last_user,              \* handle_tz_file_request.last_user, 0 while the attribute is not set
    tz_requests,            \* the calls of handle_tz_file_request, in arrival order
    tz_outbox,              \* what handle_tz_file_request sent, to whom and when
    cache,                  \* thread_storage._cache: user id -> thread id
    file,                   \* the file at thread_storage.file_path
    writes,                 \* how many times save() wrote the file
    storage_log,            \* the calls made on thread_storage, with what they returned
    thread_calls,           \* the calls of get_or_create_thread, in arrival order
    threads_created,        \* how many threads the OpenAI service has created
    assistant               \* the call of get_assistant_response that is looked at

vars == <<time_window, max_messages_per_user, user_messages, message_hashes,
          blocked_count, total_processed, now, lastCall, ret, stats, recent, log,
          processing_users, handlers, applied,
          loop_time, last_sent, last_user, tz_requests, tz_outbox,
          cache, file, writes, storage_log, thread_calls, threads_created,
          assistant>>

config == <<time_window, max_messages_per_user>>

filterState == <<user_messages, message_hashes, blocked_count, total_processed>>

routerState == <<processing_users, handlers>>

filterSide == <<config, filterState, now, lastCall, ret, stats, recent, log>>

tzState == <<loop_time, last_sent, last_user, tz_requests, tz_outbox>>

storageState == <<cache, file, writes, storage_log>>

threadState == <<thread_calls, threads_created>>

botSide == <<tzState, storageState, threadState, assistant>>

(* what the code around handle_tz_file_request leaves alone *)
exceptTz == <<filterSide, routerState, applied, storageState, threadState, assistant>>

(* what the code of ThreadStorage and of get_or_create_thread leaves alone *)
exceptThreads == <<filterSide, routerState, applied, tzState, assistant>>

(* what the code of get_assistant_response leaves alone, the thread apart *)
exceptAssistant == <<filterSide, routerState, applied, tzState, storageState, threadState>>

-----------------------------------------------------------------------------
(* Bounds of the model *)

TimeWindow == 1
MaxMessagesPerUser == 2
MaxTime == 2
MaxProcessed == 3
MaxProcessedCap == 4
MaxProcessedSimilar == 3
MaxProcessedRepeat == 3
MaxProcessedTest == 5

MaxHandlers == 3
MaxHandlersConcurrent == 2
MaxHandlersGuard == 3
MaxProcessedMalformed == 3
MaxProcessedRecent == 3
MaxProcessedCleared == 4
MaxProcessedCounted == 3
MaxTzRequests == 3
MaxLoopTime == 40
MaxThreadCalls == 3
MaxStorageOps == 3
MaxLimit == 3

(* `current_time - handle_tz_file_request.last_sent < 30` *)
TzWindow == 30

(* get_assistant_response: `timeout = 30` for a run found active,       *)
(* `max_retries = 3`, `timeout = 60` for the run it creates              *)
ActiveRunTimeout == 30
MaxRetries == 3
RunTimeout == 60

(* similarity_threshold = 0.8, kept as the fraction 8/10 *)
ThresholdNum == 8
ThresholdDen == 10

(* the configuration of the repository's test *)
TestTimeWindow == 60
TestMaxMessagesPerUser == 5

Users == {1, 2}
TestUser == 12345

-----------------------------------------------------------------------------
(* Messages *)

Str(chars) == [kind |-> "str", chars |-> chars]
None == [kind |-> "None", chars |-> <<>>]
Int123 == [kind |-> "int", chars |-> <<>>]

T_empty == Str(<<>>)
T_space == Str(<<" ", " ">>)
T_bang == Str(<<"!">>)
T_a == Str(<<"a">>)
T_Abang == Str(<<"A", "!">>)
T_b == Str(<<"b">>)
T_c == Str(<<"c">>)
T_quest == Str(<<"?">>)
T_bang_bang == Str(<<"!", " ", "!">>)
T_a_bang == Str(<<"a", " ", "!">>)
T_ab == Str(<<"a", " ", "b">>)
T_ba == Str(<<"b", " ", "a">>)
T_a_comma_b == Str(<<"a", " ", ",", " ", "b">>)
T_abc == Str(<<"a", " ", "b", " ", "c">>)
T_abcd == Str(<<"a", " ", "b", " ", "c", " ", "d">>)
T_abcde == Str(<<"a", " ", "b", " ", "c", " ", "d", " ", "e">>)

Texts == {T_empty, T_space, T_bang, T_a, T_Abang, T_b, T_c, T_abc, T_abcd, T_abcde,
          T_quest, T_bang_bang, T_a_bang, T_ab, T_ba, T_a_comma_b}

-----------------------------------------------------------------------------
(* str methods and re.sub, as _normalize_text uses them *)

IsSpace(c) == c \in {" ", "\t", "\n"}
IsWordChar(c) == c \in {"a", "b", "c", "d", "e", "A", "B", "C", "D", "E", "_", "1", "2"}

LowerChar(c) ==
    CASE c = "A" -> "a"
      [] c = "B" -> "b"
      [] c = "C" -> "c"
      [] c = "D" -> "d"
      [] c = "E" -> "e"
      [] OTHER -> c

lower(s) == [i \in 1..Len(s) |-> LowerChar(s[i])]

RECURSIVE lstrip(_)
lstrip(s) == IF s # <<>> /\ IsSpace(Head(s)) THEN lstrip(Tail(s)) ELSE s

RECURSIVE rstrip(_)
rstrip(s) ==
    IF s # <<>> /\ IsSpace(s[Len(s)]) THEN rstrip(SubSeq(s, 1, Len(s) - 1)) ELSE s

strip(s) == rstrip(lstrip(s))

(* s.split(): the maximal runs of non-whitespace characters, in order *)
RECURSIVE splitFrom(_, _, _)
splitFrom(s, word, words) ==
    IF s = <<>>
    THEN IF word = <<>> THEN words ELSE Append(words, word)
    ELSE IF IsSpace(Head(s))
         THEN splitFrom(Tail(s), <<>>, IF word = <<>> THEN words ELSE Append(words, word))
         ELSE splitFrom(Tail(s), Append(word, Head(s)), words)

split(s) == splitFrom(s, <<>>, <<>>)

(* ' '.join(words) *)
RECURSIVE join(_)
join(words) ==
    IF words = <<>> THEN <<>>
    ELSE IF Len(words) = 1 THEN Head(words)
    ELSE Head(words) \o <<" ">> \o join(Tail(words))

(* re.sub(r'[^\w\s]', '', s) *)
KeptByRegex(c) == IsWordChar(c) \/ IsSpace(c)
re_sub(s) == SelectSeq(s, KeptByRegex)

(* hashlib.md5(normalized.encode('utf-8')).hexdigest(): one digest per text *)
md5(s) == <<"md5:">> \o s

-----------------------------------------------------------------------------
(* DuplicateMessageFilter *)

Entry(timestamp, msg_hash, msg_text) ==
    [timestamp |-> timestamp, msg_hash |-> msg_hash, msg_text |-> msg_text]

(* `not text` is true of None and of the empty string *)
Falsy(text) == text.kind = "None" \/ (text.kind = "str" /\ text.chars = <<>>)

(* text.lower() raises AttributeError on a value that is not a str *)
RaisesAttributeError(text) == ~Falsy(text) /\ text.kind # "str"

(* lower, strip, collapse the whitespace, then drop the punctuation *)
normalize_str(chars) == re_sub(join(split(strip(lower(chars)))))

(* the normalized form of every text of the model, computed once *)
Normalized == [text \in Texts |-> normalize_str(text.chars)]

normalize_text(text) ==
    IF Falsy(text) THEN <<>> ELSE Normalized[text]

Words(normalized) == {split(normalized)[i] : i \in 1..Len(split(normalized))}

(* the similarity as the fraction <<numerator, denominator>> *)
calculate_similarity(text1, text2) ==
    IF Falsy(text1) \/ Falsy(text2) THEN <<0, 1>>
    ELSE LET norm1 == normalize_text(text1)
             norm2 == normalize_text(text2)
             words1 == Words(norm1)
             words2 == Words(norm2)
         IN  IF norm1 = norm2 THEN <<1, 1>>
             ELSE IF words1 = {} \/ words2 = {} THEN <<0, 1>>
             ELSE <<Cardinality(words1 \cap words2), Cardinality(words1 \cup words2)>>

(* similarity > self.similarity_threshold: the comparison made strict *)
ReachesThreshold_strict(similarity) ==
    similarity[1] * ThresholdDen > ThresholdNum * similarity[2]

(* similarity >= self.similarity_threshold *)
ReachesThreshold(similarity) ==
    similarity[1] * ThresholdDen >= ThresholdNum * similarity[2]

(* >= in place of >: a message exactly time_window old is dropped too *)
TooOld_inclusive(timestamp, current_time) == current_time - timestamp >= time_window

(* current_time - user_deque[0][0] > self.time_window *)
TooOld(timestamp, current_time) == current_time - timestamp > time_window

(* self.user_messages[user_id] of the defaultdict: a missing key is created *)
Touch(um, user_id) ==
    IF user_id \in DOMAIN um THEN um ELSE um @@ (user_id :> <<>>)

(* the append of a deque without maxlen *)
deque_append_unbounded(dq, e) == Append(dq, e)

(* deque(maxlen=max_messages_per_user).append *)
deque_append(dq, e) ==
    IF Len(dq) >= max_messages_per_user THEN Append(Tail(dq), e) ELSE Append(dq, e)

HashesOf(dq) == {dq[i].msg_hash : i \in 1..Len(dq)}

RECURSIVE popleft_old(_, _, _)
popleft_old(dq, mh, current_time) ==
    IF dq # <<>> /\ TooOld(dq[1].timestamp, current_time)
    THEN popleft_old(Tail(dq), mh \ {dq[1].msg_hash}, current_time)
    ELSE [deque |-> dq, hashes |-> mh]

(* a cleanup that drops the old messages of every user, not of user_id only *)
cleanup_old_messages_of_all(um, mh, user_id, current_time) ==
    LET um1 == Touch(um, user_id)
        kept == [u \in DOMAIN um1 |-> popleft_old(um1[u], mh, current_time).deque]
        dropped == UNION {HashesOf(um1[u]) \ HashesOf(kept[u]) : u \in DOMAIN um1}
    IN  [user_messages |-> kept, message_hashes |-> mh \ dropped]

(* a cleanup that also makes room in a full deque by dropping its oldest  *)
(* message                                                                *)
cleanup_old_messages_making_room(um, mh, user_id, current_time) ==
    LET um1 == Touch(um, user_id)
        r == popleft_old(um1[user_id], mh, current_time)
        full == Len(r.deque) >= max_messages_per_user /\ r.deque # <<>>
    IN  [user_messages |->
             [um1 EXCEPT ![user_id] = IF full THEN Tail(r.deque) ELSE r.deque],
         message_hashes |->
             IF full THEN r.hashes \ {r.deque[1].msg_hash} ELSE r.hashes]

cleanup_old_messages(um, mh, user_id, current_time) ==
    LET um1 == Touch(um, user_id)
        r == popleft_old(um1[user_id], mh, current_time)
    IN  [user_messages |-> [um1 EXCEPT ![user_id] = r.deque],
         message_hashes |-> r.hashes]

(* the check for an empty normalized text left out *)
EmptyText_never(normalized_text) == FALSE

(* `if not normalized_text` *)
EmptyText(normalized_text) == normalized_text = <<>>

(* the hash looked up among the caller's own messages only *)
ExactDuplicate_own(message_hash, mh, user_deque) == message_hash \in HashesOf(user_deque)

(* `if message_hash in self.message_hashes` *)
ExactDuplicate(message_hash, mh, user_deque) == message_hash \in mh

(* the increment of blocked_count left out *)
count_blocked_missing(blocked) == blocked

(* `self.blocked_count += 1` *)
count_blocked(blocked) == blocked + 1

(* the loop over user_deque: some retained message is similar enough *)
(* the similarity scan run over the messages of every user *)
SimilarToSome_of_any_user(user_deque, message_text) ==
    \E u \in DOMAIN user_messages :
        \E i \in 1..Len(user_messages[u]) :
            ReachesThreshold(calculate_similarity(message_text, user_messages[u][i].msg_text))

SimilarToSome(user_deque, message_text) ==
    \E i \in 1..Len(user_deque) :
        ReachesThreshold(calculate_similarity(message_text, user_deque[i].msg_text))

(* what is_duplicate returns and the state it leaves, total_processed apart *)
is_duplicate_outcome(um, mh, blocked, user_id, message_text, current_time) ==
    LET c == cleanup_old_messages(um, mh, user_id, current_time)
        um1 == c.user_messages
        mh1 == c.message_hashes
    IN  IF RaisesAttributeError(message_text)
        THEN [ret |-> "AttributeError", user_messages |-> um1,
              message_hashes |-> mh1, blocked_count |-> blocked]
        ELSE LET normalized_text == normalize_text(message_text)
                 message_hash == md5(normalized_text)
             IN  IF EmptyText(normalized_text)
                 THEN [ret |-> "False", user_messages |-> um1,
                       message_hashes |-> mh1, blocked_count |-> blocked]
                 ELSE IF ExactDuplicate(message_hash, mh1, um1[user_id])
                 THEN [ret |-> "True", user_messages |-> um1,
                       message_hashes |-> mh1, blocked_count |-> count_blocked(blocked)]
                 ELSE IF SimilarToSome(um1[user_id], message_text)
                 THEN [ret |-> "True", user_messages |-> um1,
                       message_hashes |-> mh1, blocked_count |-> count_blocked(blocked)]
                 ELSE [ret |-> "False",
                       user_messages |->
                           [um1 EXCEPT ![user_id] =
                               deque_append(@, Entry(current_time, message_hash, message_text))],
                       message_hashes |-> mh1 \cup {message_hash},
                       blocked_count |-> blocked]

RECURSIVE SumLen(_, _)
SumLen(um, S) ==
    IF S = {} THEN 0
    ELSE LET u == CHOOSE x \in S : TRUE
         IN  Len(um[u]) + SumLen(um, S \ {u})

get_stats_value ==
    [total_processed |-> total_processed,
     blocked_count |-> blocked_count,
     active_users |-> Cardinality(DOMAIN user_messages),
     cached_messages |-> SumLen(user_messages, DOMAIN user_messages)]

-----------------------------------------------------------------------------
(* Results of calls *)

NoStats ==
    [total_processed |-> -1, blocked_count |-> -1, active_users |-> -1, cached_messages |-> -1]

Call(op, user_id, message_text) ==
    [op |-> op, user_id |-> user_id, message_text |-> message_text]

Logged(user_id, message_text, at, result) ==
    [user_id |-> user_id, message_text |-> message_text, at |-> at, ret |-> result]

(* the value of recent after an operation that is not get_user_recent_messages *)
NoRecent == [limit |-> -1, messages |-> <<>>]

EmptyDict == [u \in {} |-> <<>>]

Applied(fn, text1, text2, result) ==
    [fn |-> fn, text1 |-> text1, text2 |-> text2, result |-> result]

(* the value of applied where no helper method is looked at *)
NoApplied == Applied("none", None, None, <<>>)

-----------------------------------------------------------------------------
(* Operations *)

is_duplicate_call(user_id, message_text) ==
    /\ LET o == is_duplicate_outcome(user_messages, message_hashes, blocked_count,
                                     user_id, message_text, now)
       IN  /\ total_processed' = total_processed + 1
           /\ user_messages' = o.user_messages
           /\ message_hashes' = o.message_hashes
           /\ blocked_count' = o.blocked_count
           /\ ret' = o.ret
    /\ lastCall' = Call("is_duplicate", user_id, message_text)
    /\ stats' = NoStats
    /\ recent' = NoRecent
    /\ UNCHANGED <<config, now>>

is_duplicate(user_id, message_text) ==
    /\ is_duplicate_call(user_id, message_text)
    /\ UNCHANGED <<log, routerState, applied, botSide>>

(* the same call, recorded in the log *)
is_duplicate_logged(user_id, message_text) ==
    /\ is_duplicate_call(user_id, message_text)
    /\ log' = Append(log, Logged(user_id, message_text, now, ret'))
    /\ UNCHANGED <<routerState, applied, botSide>>

(* get_stats that starts a new counting period after reporting *)
get_stats_resetting ==
    /\ stats' = get_stats_value
    /\ blocked_count' = 0
    /\ total_processed' = 0
    /\ lastCall' = Call("get_stats", 0, None)
    /\ ret' = "None"
    /\ recent' = NoRecent
    /\ UNCHANGED <<config, user_messages, message_hashes, now, log, routerState, applied, botSide>>

get_stats ==
    /\ stats' = get_stats_value
    /\ lastCall' = Call("get_stats", 0, None)
    /\ ret' = "None"
    /\ recent' = NoRecent
    /\ UNCHANGED <<config, filterState, now, log, routerState, applied, botSide>>

(* clear_user_cache that zeroes the counters as clear_all_cache does *)
clear_user_cache_reset_counters(user_id) ==
    /\ IF user_id \in DOMAIN user_messages
       THEN /\ message_hashes' = message_hashes \ HashesOf(user_messages[user_id])
            /\ user_messages' = [user_messages EXCEPT ![user_id] = <<>>]
       ELSE UNCHANGED <<user_messages, message_hashes>>
    /\ blocked_count' = 0
    /\ total_processed' = 0
    /\ lastCall' = Call("clear_user_cache", user_id, None)
    /\ ret' = "None"
    /\ stats' = NoStats
    /\ recent' = NoRecent
    /\ UNCHANGED <<config, now, log, routerState, applied, botSide>>

(* clear_user_cache that empties the history and leaves the hashes in the index *)
clear_user_cache_keep_hashes(user_id) ==
    /\ IF user_id \in DOMAIN user_messages
       THEN user_messages' = [user_messages EXCEPT ![user_id] = <<>>]
       ELSE UNCHANGED user_messages
    /\ lastCall' = Call("clear_user_cache", user_id, None)
    /\ ret' = "None"
    /\ stats' = NoStats
    /\ recent' = NoRecent
    /\ UNCHANGED <<config, message_hashes, blocked_count, total_processed, now, log,
                   routerState, applied, botSide>>

clear_user_cache(user_id) ==
    /\ IF user_id \in DOMAIN user_messages
       THEN /\ message_hashes' = message_hashes \ HashesOf(user_messages[user_id])
            /\ user_messages' = [user_messages EXCEPT ![user_id] = <<>>]
       ELSE UNCHANGED <<user_messages, message_hashes>>
    /\ lastCall' = Call("clear_user_cache", user_id, None)
    /\ ret' = "None"
    /\ stats' = NoStats
    /\ recent' = NoRecent
    /\ UNCHANGED <<config, blocked_count, total_processed, now, log, routerState, applied, botSide>>

(* clear_all_cache that forgets self.message_hashes.clear() *)
clear_all_cache_keep_hashes ==
    /\ user_messages' = EmptyDict
    /\ blocked_count' = 0
    /\ total_processed' = 0
    /\ lastCall' = Call("clear_all_cache", 0, None)
    /\ ret' = "None"
    /\ stats' = NoStats
    /\ recent' = NoRecent
    /\ log' = <<>>
    /\ UNCHANGED <<config, message_hashes, now, routerState, applied, botSide>>

clear_all_cache ==
    /\ user_messages' = EmptyDict
    /\ message_hashes' = {}
    /\ blocked_count' = 0
    /\ total_processed' = 0
    /\ lastCall' = Call("clear_all_cache", 0, None)
    /\ ret' = "None"
    /\ stats' = NoStats
    /\ recent' = NoRecent
    /\ log' = <<>>
    /\ UNCHANGED <<config, now, routerState, applied, botSide>>

(* list[-limit:]: the index -limit counts from the end when limit > 0 and  *)
(* is the index 0 when limit = 0; an index outside the list is clamped    *)
slice_from_minus(list, limit) ==
    LET n == Len(list)
        start == IF limit > 0
                 THEN (IF limit > n THEN 0 ELSE n - limit)
                 ELSE (IF -limit > n THEN n ELSE -limit)
    IN  SubSeq(list, start + 1, n)

Recent(limit, messages) == [limit |-> limit, messages |-> messages]

(* get_user_recent_messages that reads self.user_messages[user_id] without *)
(* the membership test                                                    *)
get_user_recent_messages_touching(user_id, limit) ==
    /\ user_messages' = Touch(user_messages, user_id)
    /\ recent' = Recent(limit, slice_from_minus(user_messages'[user_id], limit))
    /\ lastCall' = Call("get_user_recent_messages", user_id, None)
    /\ ret' = "None"
    /\ stats' = NoStats
    /\ UNCHANGED <<config, message_hashes, blocked_count, total_processed, now, log,
                   routerState, applied, botSide>>

get_user_recent_messages(user_id, limit) ==
    /\ recent' = Recent(limit, IF user_id \notin DOMAIN user_messages
                               THEN <<>>
                               ELSE slice_from_minus(user_messages[user_id], limit))
    /\ lastCall' = Call("get_user_recent_messages", user_id, None)
    /\ ret' = "None"
    /\ stats' = NoStats
    /\ UNCHANGED <<config, filterState, now, log, routerState, applied, botSide>>

(* self._calculate_similarity(text1, text2), called on its own *)
apply_calculate_similarity ==
    /\ applied.fn = "input"
    /\ applied' = [applied EXCEPT !.fn = "_calculate_similarity",
                                  !.result = calculate_similarity(applied.text1, applied.text2)]
    /\ UNCHANGED <<filterSide, routerState, botSide>>

(* self._normalize_text, called on its own for each of two texts *)
apply_normalize_text ==
    /\ applied.fn = "input"
    /\ applied' = [applied EXCEPT !.fn = "_normalize_text",
                                  !.result = <<normalize_text(applied.text1),
                                               normalize_text(applied.text2)>>]
    /\ UNCHANGED <<filterSide, routerState, botSide>>

(* time passes between two calls *)
Tick ==
    /\ now < MaxTime
    /\ now' = now + 1
    /\ UNCHANGED <<config, filterState, lastCall, ret, stats, recent, log, routerState, applied, botSide>>

-----------------------------------------------------------------------------
(* The message handlers of src/main.py.  A handler runs from one await to *)
(* the next without interleaving; handlers[i] is the i-th handler call    *)
(* with the place it has reached.                                         *)

(* f'@{BOT_NAME}', kept as one element of a text *)
Mention == "@support_bot_v4"

(* message.text.replace(f'@{BOT_NAME}', '') *)
NotMention(c) == c # Mention
replace_mention(text) == Str(SelectSeq(text.chars, NotMention))

(* a handler call that returned before any await *)
Returned(kind, user_id, text, dup) ==
    [kind |-> kind, user_id |-> user_id, text |-> text, pc |-> "done", dup |-> dup,
     classified |-> FALSE, replied |-> FALSE]

(* a handler call suspended in `await detect_request_type_smart(...)` *)
Detecting(kind, user_id, text, dup) ==
    [kind |-> kind, user_id |-> user_id, text |-> text, pc |-> "detect", dup |-> dup,
     classified |-> TRUE, replied |-> FALSE]

(* handle_private_message without the test `user_id in processing_users` *)
handle_private_message_unguarded(user_id, text, global_enabled, user_blocked) ==
    IF Falsy(text) \/ ~global_enabled \/ user_blocked
    THEN /\ handlers' = Append(handlers, Returned("private", user_id, text, "None"))
         /\ UNCHANGED <<processing_users, filterSide, applied, botSide>>
    ELSE /\ processing_users' = processing_users \cup {user_id}
         /\ is_duplicate_call(user_id, text)
         /\ UNCHANGED <<log, applied, botSide>>
         /\ handlers' = Append(handlers,
                               IF ret' = "True"
                               THEN Returned("private", user_id, text, "True")
                               ELSE Detecting("private", user_id, text, "False"))

handle_private_message(user_id, text, global_enabled, user_blocked) ==
    IF Falsy(text) \/ ~global_enabled \/ user_blocked \/ user_id \in processing_users
    THEN /\ handlers' = Append(handlers, Returned("private", user_id, text, "None"))
         /\ UNCHANGED <<processing_users, filterSide, applied, botSide>>
    ELSE /\ processing_users' = processing_users \cup {user_id}
         /\ is_duplicate_call(user_id, text)
         /\ UNCHANGED <<log, applied, botSide>>
         /\ handlers' = Append(handlers,
                               IF ret' = "True"
                               THEN Returned("private", user_id, text, "True")
                               ELSE Detecting("private", user_id, text, "False"))

handle_group_message(user_id, text, mentioned, active_in_chat) ==
    /\ handlers' = Append(handlers,
           IF ~mentioned \/ Falsy(text) \/ ~active_in_chat
                 \/ Falsy(Str(strip(replace_mention(text).chars)))
           THEN Returned("group", user_id, text, "None")
           ELSE Detecting("group", user_id, text, "None"))
    /\ UNCHANGED <<processing_users, filterSide, applied, botSide>>

(* detect_request_type_smart returned: the handler goes on to the reply   *)
(* of the detected type                                                   *)
handler_detected(i) ==
    /\ handlers[i].pc = "detect"
    /\ handlers' = [handlers EXCEPT ![i].pc = "respond", ![i].replied = TRUE]
    /\ UNCHANGED <<processing_users, filterSide, applied, botSide>>

(* the reply was sent or raised; handle_private_message then runs its     *)
(* finally block                                                          *)
handler_finished(i) ==
    /\ handlers[i].pc = "respond"
    /\ handlers' = [handlers EXCEPT ![i].pc = "done"]
    /\ processing_users' = IF handlers[i].kind = "private"
                           THEN processing_users \ {handlers[i].user_id}
                           ELSE processing_users
    /\ UNCHANGED <<filterSide, applied, botSide>>

(* /clear_duplicates: clear_user_duplicates(user_id) is called before the  *)
(* first await of the command handler                                     *)
clear_duplicates_command(user_id) == clear_user_cache(user_id)

(* /status: get_duplicate_stats() is called before the first await of the *)
(* command handler                                                        *)
status_command == get_stats

-----------------------------------------------------------------------------
(* handle_tz_file_request of src/main.py.  last_sent and last_user are    *)
(* attributes of the function object, one pair for all users; the         *)
(* function runs without interleaving from one await to the next.         *)

TzRequest(user_id, pc) == [user_id |-> user_id, pc |-> pc]

TzSent(user_id, what, at) == [user_id |-> user_id, what |-> what, at |-> at]

(* hasattr(handle_tz_file_request, 'last_sent') and hasattr(..., 'last_user') *)
HasLastSent == last_sent # -1 /\ last_user # 0

(* last_user == user_id and current_time - last_sent < 30 *)
RecentlySent(user_id, current_time) ==
    HasLastSent /\ last_user = user_id /\ current_time - last_sent < TzWindow

(* from the call to the first await *)
handle_tz_file_request(user_id) ==
    /\ LET current_time == loop_time
       IN  IF RecentlySent(user_id, current_time)
           THEN /\ tz_requests' = Append(tz_requests, TzRequest(user_id, "already"))
                /\ UNCHANGED <<last_sent, last_user>>
           ELSE /\ last_sent' = current_time
                /\ last_user' = user_id
                /\ tz_requests' = Append(tz_requests, TzRequest(user_id, "announce"))
    /\ UNCHANGED <<loop_time, tz_outbox, exceptTz>>

(* send_human_like_response: the text goes out, or send_message fails and *)
(* the error is logged                                                    *)
tz_send_text(i, what, next_pc, delivered) ==
    /\ tz_requests' = [tz_requests EXCEPT ![i].pc = next_pc]
    /\ tz_outbox' = IF delivered
                    THEN Append(tz_outbox, TzSent(tz_requests[i].user_id, what, loop_time))
                    ELSE tz_outbox
    /\ UNCHANGED <<loop_time, last_sent, last_user, exceptTz>>

(* the 'already sent' reply, then return *)
tz_reply_already(i, delivered) ==
    /\ tz_requests[i].pc = "already"
    /\ tz_send_text(i, "already", "done", delivered)

(* the reply that announces the file *)
tz_announce(i, delivered) ==
    /\ tz_requests[i].pc = "announce"
    /\ tz_send_text(i, "announce", "upload", delivered)

(* file_manager.send_tz_file: the document goes out, or an error text does *)
tz_send_file(i, delivered) ==
    /\ tz_requests[i].pc = "upload"
    /\ tz_send_text(i, IF delivered THEN "file" ELSE "error", "done", TRUE)

(* the event loop's clock advances while the tasks are suspended *)
loop_time_passes(d) ==
    /\ loop_time + d <= MaxLoopTime
    /\ loop_time' = loop_time + d
    /\ UNCHANGED <<last_sent, last_user, tz_requests, tz_outbox, exceptTz>>

InitTz ==
    /\ loop_time = 0
    /\ last_sent = -1
    /\ last_user = 0
    /\ tz_requests = <<>>
    /\ tz_outbox = <<>>

-----------------------------------------------------------------------------
(* ThreadStorage of src/storage/threads.py.  The file holds the text that *)
(* json.dump wrote: the pairs of the dict one after the other.            *)

(* Python's None where a thread id is expected *)
NoThread == <<"None">>

(* the id of the n-th thread the service creates *)
ThreadId(n) == <<"thread", n>>

AbsentFile == [state |-> "absent", text |-> <<>>]
CorruptFile == [state |-> "corrupt", text |-> <<>>]
JsonFile(text) == [state |-> "json", text |-> text]

(* json.dump(self._cache, f): one pair <<key, value>> per item *)
RECURSIVE json_dump(_)
json_dump(d) ==
    IF DOMAIN d = {} THEN <<>>
    ELSE LET k == CHOOSE x \in DOMAIN d : TRUE
         IN  <<<<k, d[k]>>>> \o json_dump([x \in DOMAIN d \ {k} |-> d[x]])

(* json.load(f): the dict of the pairs, the last pair of a key winning *)
json_load(text) ==
    [k \in {text[i][1] : i \in DOMAIN text} |->
        LET last == CHOOSE i \in DOMAIN text :
                        /\ text[i][1] = k
                        /\ \A j \in DOMAIN text : text[j][1] = k => j <= i
        IN  text[last][2]]

(* _load: the dict of the file, {} for a missing file and for one that   *)
(* does not parse                                                        *)
load(f) == IF f.state = "json" THEN json_load(f.text) ELSE EmptyDict

(* a save() that adds the pairs to the text already in the file *)
save_appending(c, f, outcome) ==
    IF outcome = "written"
    THEN JsonFile((IF f.state = "json" THEN f.text ELSE <<>>) \o json_dump(c))
    ELSE IF outcome = "torn" THEN CorruptFile ELSE f

(* save: open(self.file_path, 'w') and json.dump; the file after a write *)
(* that succeeded, that failed before the file was opened, and that      *)
(* failed after it was truncated                                         *)
save(c, f, outcome) ==
    IF outcome = "written" THEN JsonFile(json_dump(c))
    ELSE IF outcome = "torn" THEN CorruptFile ELSE f

Outcomes == {"written", "failed", "torn"}

(* self._cache.get(user_id) *)
Get(c, user_id) == IF user_id \in DOMAIN c THEN c[user_id] ELSE NoThread

(* self._cache[user_id] = thread_id *)
Put(c, user_id, thread_id) ==
    [x \in DOMAIN c \cup {user_id} |-> IF x = user_id THEN thread_id ELSE c[x]]

(* del self._cache[user_id] *)
Del(c, user_id) == [x \in DOMAIN c \ {user_id} |-> c[x]]

StorageCall(op, user_id, thread_id, saving, outcome, result) ==
    [op |-> op, user_id |-> user_id, thread_id |-> thread_id, save |-> saving,
     outcome |-> outcome, result |-> result]

(* what a call returns that ran save() with this outcome *)
Raised(saving, outcome) ==
    IF saving /\ outcome # "written" THEN <<"raised">> ELSE NoThread

get_call(user_id) ==
    /\ storage_log' = Append(storage_log,
           StorageCall("get", user_id, NoThread, FALSE, "none", Get(cache, user_id)))
    /\ UNCHANGED <<cache, file, writes>>

get(user_id) ==
    /\ get_call(user_id)
    /\ UNCHANGED <<threadState, exceptThreads>>

set_call(user_id, thread_id, saving, outcome) ==
    /\ cache' = Put(cache, user_id, thread_id)
    /\ IF saving
       THEN file' = save(cache', file, outcome) /\ writes' = writes + 1
       ELSE UNCHANGED <<file, writes>>
    /\ storage_log' = Append(storage_log,
           StorageCall("set", user_id, thread_id, saving, outcome, Raised(saving, outcome)))

set(user_id, thread_id, saving, outcome) ==
    /\ set_call(user_id, thread_id, saving, outcome)
    /\ UNCHANGED <<threadState, exceptThreads>>

delete(user_id, saving, outcome) ==
    /\ IF user_id \in DOMAIN cache
       THEN /\ cache' = Del(cache, user_id)
            /\ IF saving
               THEN file' = save(cache', file, outcome) /\ writes' = writes + 1
               ELSE UNCHANGED <<file, writes>>
            /\ storage_log' = Append(storage_log,
                   StorageCall("delete", user_id, NoThread, saving, outcome,
                               Raised(saving, outcome)))
       ELSE /\ storage_log' = Append(storage_log,
                   StorageCall("delete", user_id, NoThread, saving, "none", NoThread))
            /\ UNCHANGED <<cache, file, writes>>
    /\ UNCHANGED <<threadState, exceptThreads>>

clear(saving, outcome) ==
    /\ cache' = EmptyDict
    /\ IF saving
       THEN file' = save(cache', file, outcome) /\ writes' = writes + 1
       ELSE UNCHANGED <<file, writes>>
    /\ storage_log' = Append(storage_log,
           StorageCall("clear", "all", NoThread, saving, outcome, Raised(saving, outcome)))
    /\ UNCHANGED <<threadState, exceptThreads>>

(* ThreadStorage(THREADS_FILE) where no file exists yet *)
InitStorage ==
    /\ file = AbsentFile
    /\ cache = load(file)
    /\ writes = 0
    /\ storage_log = <<>>

-----------------------------------------------------------------------------
(* get_or_create_thread of src/main.py: thread_storage.get, then          *)
(* `await openai_client.beta.threads.create()`, then thread_storage.set   *)

ThreadCall(kind, user_id, pc, thread_id) ==
    [kind |-> kind, user_id |-> user_id, pc |-> pc, thread_id |-> thread_id]

(* the handler of private messages has a call for user_id under way: the  *)
(* user is in processing_users and a second private message returns       *)
PrivateUnderWay(user_id) ==
    \E i \in 1..Len(thread_calls) :
        /\ thread_calls[i].kind = "private"
        /\ thread_calls[i].user_id = user_id
        /\ thread_calls[i].pc = "create"

(* from the call to `await openai_client.beta.threads.create()`, or to   *)
(* the return of the stored id                                           *)
get_or_create_thread(kind, user_id) ==
    /\ kind = "private" => ~PrivateUnderWay(user_id)
    /\ get_call(user_id)
    /\ thread_calls' = Append(thread_calls,
           IF Get(cache, user_id) = NoThread
           THEN ThreadCall(kind, user_id, "create", NoThread)
           ELSE ThreadCall(kind, user_id, "done", Get(cache, user_id)))
    /\ UNCHANGED <<threads_created, exceptThreads>>

(* threads.create() returned a new thread, which is stored and returned,  *)
(* or it raised; an error of save() is raised to the caller too           *)
thread_created(i, created, outcome) ==
    /\ thread_calls[i].pc = "create"
    /\ IF created
       THEN /\ threads_created' = threads_created + 1
            /\ set_call(thread_calls[i].user_id, ThreadId(threads_created'), TRUE, outcome)
            /\ thread_calls' =
                   [thread_calls EXCEPT
                       ![i].pc = IF outcome = "written" THEN "done" ELSE "raised",
                       ![i].thread_id = IF outcome = "written"
                                        THEN ThreadId(threads_created') ELSE NoThread]
       ELSE /\ thread_calls' = [thread_calls EXCEPT ![i].pc = "raised"]
            /\ UNCHANGED <<storageState, threads_created>>
    /\ UNCHANGED exceptThreads

InitThreads ==
    /\ thread_calls = <<>>
    /\ threads_created = 0

-----------------------------------------------------------------------------
(* get_assistant_response of src/main.py, one step per await: the call of *)
(* the OpenAI client returns a value or raises                            *)

Active == {"queued", "in_progress", "requires_action"}

RunStatuses == Active \cup {"completed", "failed"}

(* no call under way; the fields after pc, attempt, elapsed and status    *)
(* record what the call did                                               *)
Idle ==
    [pc |-> "idle", attempt |-> 0, elapsed |-> 0, status |-> "none",
     add_log |-> <<>>, runs_created |-> 0, polls_active |-> 0, polls_own |-> 0,
     poll_raised |-> FALSE, cancel_requested |-> FALSE, result |-> "none"]

Return(a, result) == [a EXCEPT !.pc = "returned", !.result = result]

(* `except Exception as e: ... return f"Ошибка: {str(e)}"` *)
Caught(a) == Return(a, "error")

(* the loop condition with <= in place of < *)
StillWaiting_inclusive(status, elapsed, timeout) ==
    status \in Active /\ elapsed <= timeout

(* `run.status in ['queued', 'in_progress', 'requires_action'] and elapsed < timeout` *)
StillWaiting(status, elapsed, timeout) ==
    status \in Active /\ elapsed < timeout

(* a handler calls get_assistant_response *)
get_assistant_response ==
    /\ assistant.pc \in {"idle", "returned"}
    /\ assistant' = [Idle EXCEPT !.pc = "thread"]
    /\ UNCHANGED exceptAssistant

(* `thread_id = await get_or_create_thread(user_id)` returned or raised *)
assistant_thread(ok) ==
    /\ assistant.pc = "thread"
    /\ assistant' = IF ok THEN [assistant EXCEPT !.pc = "list_runs"] ELSE Caught(assistant)
    /\ UNCHANGED exceptAssistant

(* runs.list returned no run, a run with its status, or raised; an active *)
(* run is waited for                                                      *)
assistant_runs_listed(listed) ==
    /\ assistant.pc = "list_runs"
    /\ assistant' =
           IF listed \in Active /\ StillWaiting(listed, 0, ActiveRunTimeout)
           THEN [assistant EXCEPT !.pc = "wait_active", !.status = listed, !.elapsed = 0]
           ELSE IF listed \in Active
           THEN [assistant EXCEPT !.pc = IF 0 >= ActiveRunTimeout THEN "cancel" ELSE "add",
                                  !.status = listed, !.elapsed = 0]
           ELSE [assistant EXCEPT !.pc = "add"]
    /\ UNCHANGED exceptAssistant

(* one round of the first loop: sleep(1), elapsed += 1, runs.retrieve;   *)
(* an error ends the wait without a cancellation                         *)
assistant_active_polled(polled) ==
    /\ assistant.pc = "wait_active"
    /\ LET elapsed == assistant.elapsed + 1
           a == [assistant EXCEPT !.elapsed = elapsed, !.polls_active = @ + 1]
       IN  assistant' =
               IF polled = "raised" THEN [a EXCEPT !.pc = "add", !.poll_raised = TRUE]
               ELSE IF StillWaiting(polled, elapsed, ActiveRunTimeout)
               THEN [a EXCEPT !.status = polled]
               ELSE IF elapsed >= ActiveRunTimeout
               THEN [a EXCEPT !.status = polled, !.pc = "cancel"]
               ELSE [a EXCEPT !.status = polled, !.pc = "add"]
    /\ UNCHANGED exceptAssistant

(* runs.cancel, its error ignored *)
assistant_cancelled(ok) ==
    /\ assistant.pc = "cancel"
    /\ assistant' = [assistant EXCEPT !.pc = "add", !.cancel_requested = TRUE]
    /\ UNCHANGED exceptAssistant

(* a retry loop that goes on to the run when the last attempt failed *)
assistant_message_added_swallowing(ok) ==
    /\ assistant.pc = "add"
    /\ assistant' =
           IF ok
           THEN [assistant EXCEPT !.pc = "create_run", !.add_log = Append(@, "ok")]
           ELSE IF assistant.attempt < MaxRetries - 1
           THEN [assistant EXCEPT !.attempt = @ + 1, !.add_log = Append(@, "failed")]
           ELSE [assistant EXCEPT !.pc = "create_run", !.add_log = Append(@, "failed")]
    /\ UNCHANGED exceptAssistant

(* one attempt of messages.create: break, or sleep(2) and the next       *)
(* attempt, or `raise e` after the last                                  *)
assistant_message_added(ok) ==
    /\ assistant.pc = "add"
    /\ assistant' =
           IF ok
           THEN [assistant EXCEPT !.pc = "create_run", !.add_log = Append(@, "ok")]
           ELSE IF assistant.attempt < MaxRetries - 1
           THEN [assistant EXCEPT !.attempt = @ + 1, !.add_log = Append(@, "failed")]
           ELSE Caught([assistant EXCEPT !.add_log = Append(@, "failed")])
    /\ UNCHANGED exceptAssistant

(* runs.create returned the run with its status, or raised *)
assistant_run_created(created) ==
    /\ assistant.pc = "create_run"
    /\ assistant' =
           IF created = "raised" THEN Caught(assistant)
           ELSE [assistant EXCEPT
                    !.runs_created = @ + 1, !.status = created, !.elapsed = 0,
                    !.pc = IF StillWaiting(created, 0, RunTimeout)
                           THEN "wait_run" ELSE "finish"]
    /\ UNCHANGED exceptAssistant

(* one round of the second loop: sleep(1), elapsed += 1, runs.retrieve *)
assistant_run_polled(polled) ==
    /\ assistant.pc = "wait_run"
    /\ LET elapsed == assistant.elapsed + 1
           a == [assistant EXCEPT !.elapsed = elapsed, !.polls_own = @ + 1]
       IN  assistant' =
               IF polled = "raised" THEN Caught(a)
               ELSE [a EXCEPT !.status = polled,
                              !.pc = IF StillWaiting(polled, elapsed, RunTimeout)
                                     THEN "wait_run" ELSE "finish"]
    /\ UNCHANGED exceptAssistant

(* after the loop: for a completed run messages.list and the cleaned     *)
(* text of the newest message, else the error text with the status      *)
assistant_finished(listed) ==
    /\ assistant.pc = "finish"
    /\ assistant' =
           IF assistant.status = "completed"
           THEN IF listed = "raised" THEN Caught(assistant)
                ELSE IF listed = "text" THEN Return(assistant, "text")
                ELSE Return(assistant, "assistant_error")
           ELSE Return(assistant, "assistant_error")
    /\ assistant.status # "completed" => listed = "empty"
    /\ UNCHANGED exceptAssistant

InitAssistant == assistant = Idle

InitBot ==
    /\ InitTz
    /\ InitStorage
    /\ InitThreads
    /\ InitAssistant

-----------------------------------------------------------------------------
(* Specifications *)

InitFilter(window, maxlen) ==
    /\ time_window = window
    /\ max_messages_per_user = maxlen
    /\ user_messages = EmptyDict
    /\ message_hashes = {}
    /\ blocked_count = 0
    /\ total_processed = 0
    /\ now = 0
    /\ lastCall = Call("__init__", 0, None)
    /\ ret = "None"
    /\ stats = NoStats
    /\ recent = NoRecent
    /\ log = <<>>
    /\ processing_users = {}
    /\ handlers = <<>>
    /\ applied = NoApplied
    /\ InitBot

(* The filter as the bot runs it: two users, texts that differ in case,  *)
(* punctuation and content.                                              *)
Init == InitFilter(TimeWindow, MaxMessagesPerUser)

Messages == {T_empty, T_space, T_bang, T_a, T_Abang, T_b, T_abcd}

Next ==
    \/ \E user_id \in Users, message_text \in Messages :
          total_processed < MaxProcessed /\ is_duplicate(user_id, message_text)
    \/ get_stats
    \/ \E user_id \in Users : clear_user_cache(user_id)
    \/ clear_all_cache
    \/ Tick

Spec == Init /\ [][Next]_vars

(* One user sending pairwise non-similar texts, more of them than the    *)
(* deque holds; every call since the last clear_all_cache is logged.     *)
CapMessages == {T_a, T_b, T_c, T_abcd}

NextCap ==
    \/ \E message_text \in CapMessages :
          total_processed < MaxProcessedCap /\ is_duplicate_logged(1, message_text)
    \/ get_stats
    \/ clear_all_cache
    \/ Tick

SpecCap == Init /\ [][NextCap]_vars

(* Repeated and near-repeated texts of two users, logged *)
RepeatMessages == {T_bang, T_abcd, T_abcde}

NextRepeat ==
    \/ \E user_id \in Users, message_text \in RepeatMessages :
          total_processed < MaxProcessedRepeat /\ is_duplicate_logged(user_id, message_text)
    \/ get_stats
    \/ clear_all_cache
    \/ Tick

SpecRepeat == Init /\ [][NextRepeat]_vars

(* Texts whose word sets overlap: 3 of 4, 4 of 5 and 3 of 5 words shared *)
SimilarMessages == {T_abc, T_abcd, T_abcde}

NextSimilar ==
    \/ \E user_id \in Users, message_text \in SimilarMessages :
          total_processed < MaxProcessedSimilar /\ is_duplicate(user_id, message_text)
    \/ get_stats
    \/ \E user_id \in Users : clear_user_cache(user_id)
    \/ clear_all_cache
    \/ Tick

SpecSimilar == Init /\ [][NextSimilar]_vars

(* Every operation of the filter, get_user_recent_messages with limits    *)
(* from 0 to beyond the length of a full history                         *)
RecentMessages == {T_a, T_Abang, T_b}

Limits == 0..MaxLimit

NextRecent ==
    \/ \E user_id \in Users, message_text \in RecentMessages :
          total_processed < MaxProcessedRecent /\ is_duplicate(user_id, message_text)
    \/ \E user_id \in Users, limit \in Limits : get_user_recent_messages(user_id, limit)
    \/ get_stats
    \/ \E user_id \in Users : clear_user_cache(user_id)
    \/ clear_all_cache
    \/ Tick

SpecRecent == Init /\ [][NextRecent]_vars

(* Calls whose message is None or a number next to calls with a str *)
MalformedMessages == {None, Int123, T_a, T_Abang}

NextMalformed ==
    \/ \E user_id \in Users, message_text \in MalformedMessages :
          total_processed < MaxProcessedMalformed /\ is_duplicate(user_id, message_text)
    \/ get_stats
    \/ \E user_id \in Users : clear_user_cache(user_id)
    \/ clear_all_cache
    \/ Tick

SpecMalformed == Init /\ [][NextMalformed]_vars

(* The handlers of private and of group messages, run as asyncio tasks    *)
(* over the one filter                                                    *)
PrivateMessages == {None, T_a}

GroupMessages == {Str(<<Mention>>), Str(<<Mention, " ", "a">>)}

NextRouter ==
    \/ \E user_id \in Users, text \in PrivateMessages,
          global_enabled \in BOOLEAN, user_blocked \in BOOLEAN :
          Len(handlers) < MaxHandlers
              /\ handle_private_message(user_id, text, global_enabled, user_blocked)
    \/ \E user_id \in Users, text \in GroupMessages,
          mentioned \in BOOLEAN, active_in_chat \in BOOLEAN :
          Len(handlers) < MaxHandlers
              /\ handle_group_message(user_id, text, mentioned, active_in_chat)
    \/ \E i \in 1..Len(handlers) : handler_detected(i)
    \/ \E i \in 1..Len(handlers) : handler_finished(i)
    \/ Tick

SpecRouter == Init /\ [][NextRouter]_vars

(* Private messages of two users whose texts have the same normalized     *)
(* form, handled as concurrent tasks, next to the commands that call the  *)
(* filter                                                                 *)
ConcurrentMessages == {T_a, T_Abang, T_bang}

NextConcurrent ==
    \/ \E user_id \in Users, text \in ConcurrentMessages :
          Len(handlers) < MaxHandlersConcurrent
              /\ handle_private_message(user_id, text, TRUE, FALSE)
    \/ \E i \in 1..Len(handlers) : handler_detected(i)
    \/ \E i \in 1..Len(handlers) : handler_finished(i)
    \/ \E user_id \in Users : clear_duplicates_command(user_id)
    \/ status_command
    \/ Tick

SpecConcurrent == Init /\ [][NextConcurrent]_vars

(* The helper methods applied to every pair of texts of the model *)
InitHelpers ==
    /\ time_window = TimeWindow
    /\ max_messages_per_user = MaxMessagesPerUser
    /\ user_messages = EmptyDict
    /\ message_hashes = {}
    /\ blocked_count = 0
    /\ total_processed = 0
    /\ now = 0
    /\ lastCall = Call("__init__", 0, None)
    /\ ret = "None"
    /\ stats = NoStats
    /\ recent = NoRecent
    /\ log = <<>>
    /\ processing_users = {}
    /\ handlers = <<>>
    /\ InitBot
    /\ \E text1 \in Texts, text2 \in Texts : applied = Applied("input", text1, text2, <<>>)

NextHelpers ==
    \/ apply_calculate_similarity
    \/ apply_normalize_text

SpecHelpers == InitHelpers /\ [][NextHelpers]_vars

(* Private messages only: a text that is admitted once, a text whose      *)
(* normalized form is empty and so is never a duplicate, a message        *)
(* without text                                                           *)
GuardMessages == {None, T_a, T_bang}

NextGuard ==
    \/ \E user_id \in Users, text \in GuardMessages,
          global_enabled \in BOOLEAN, user_blocked \in BOOLEAN :
          Len(handlers) < MaxHandlersGuard
              /\ handle_private_message(user_id, text, global_enabled, user_blocked)
    \/ \E i \in 1..Len(handlers) : handler_detected(i)
    \/ \E i \in 1..Len(handlers) : handler_finished(i)
    \/ Tick

SpecGuard == Init /\ [][NextGuard]_vars

(* Two users sending pairwise non-similar texts, more of them than the    *)
(* deque holds, and /clear_duplicates; every is_duplicate call is logged  *)
ClearedMessages == {T_a, T_b, T_c}

NextCleared ==
    \/ \E user_id \in Users, message_text \in ClearedMessages :
          total_processed < MaxProcessedCleared /\ is_duplicate_logged(user_id, message_text)
    \/ \E user_id \in Users : clear_user_cache(user_id)
    \/ Tick

SpecCleared == Init /\ [][NextCleared]_vars

(* Every kind of input: a text, its repeat, None and a number; every call *)
(* since the last clear_all_cache is logged with what it returned         *)
CountedMessages == {None, Int123, T_a, T_Abang}

NextCounted ==
    \/ \E user_id \in Users, message_text \in CountedMessages :
          total_processed < MaxProcessedCounted /\ is_duplicate_logged(user_id, message_text)
    \/ get_stats
    \/ \E user_id \in Users : clear_user_cache(user_id)
    \/ clear_all_cache
    \/ Tick

SpecCounted == Init /\ [][NextCounted]_vars

(* Requests for the TZ file from two users, seconds apart and more than   *)
(* the guard's 30 seconds apart                                           *)
Delays == {10, 30}

NextTz ==
    \/ \E user_id \in Users :
          Len(tz_requests) < MaxTzRequests /\ handle_tz_file_request(user_id)
    \/ \E i \in 1..Len(tz_requests), delivered \in BOOLEAN : tz_reply_already(i, delivered)
    \/ \E i \in 1..Len(tz_requests), delivered \in BOOLEAN : tz_announce(i, delivered)
    \/ \E i \in 1..Len(tz_requests), delivered \in BOOLEAN : tz_send_file(i, delivered)
    \/ \E d \in Delays : loop_time_passes(d)

SpecTz == Init /\ [][NextTz]_vars

(* Handlers of private and of group messages that ask for the thread of  *)
(* a user while other handlers do; no /clear in between                   *)
ThreadUsers == {ToString(u) : u \in Users}

NextThreads ==
    \/ \E kind \in {"private", "group"}, user_id \in ThreadUsers :
          Len(thread_calls) < MaxThreadCalls /\ get_or_create_thread(kind, user_id)
    \/ \E i \in 1..Len(thread_calls), created \in BOOLEAN, outcome \in Outcomes :
          thread_created(i, created, outcome)

SpecThreads == Init /\ [][NextThreads]_vars

(* A ThreadStorage built over a file that is missing, that does not      *)
(* parse, or that an earlier run saved, and then called in any order     *)
StoredFiles == {AbsentFile, CorruptFile, JsonFile(json_dump("1" :> ThreadId(1)))}

ThreadIds == {ThreadId(1), ThreadId(2)}

InitStored ==
    /\ time_window = TimeWindow
    /\ max_messages_per_user = MaxMessagesPerUser
    /\ user_messages = EmptyDict
    /\ message_hashes = {}
    /\ blocked_count = 0
    /\ total_processed = 0
    /\ now = 0
    /\ lastCall = Call("__init__", 0, None)
    /\ ret = "None"
    /\ stats = NoStats
    /\ recent = NoRecent
    /\ log = <<>>
    /\ processing_users = {}
    /\ handlers = <<>>
    /\ applied = NoApplied
    /\ InitTz
    /\ InitThreads
    /\ InitAssistant
    /\ file \in StoredFiles
    /\ cache = load(file)
    /\ writes = 0
    /\ storage_log = <<>>

NextStorage ==
    \/ \E user_id \in ThreadUsers : Len(storage_log) < MaxStorageOps /\ get(user_id)
    \/ \E user_id \in ThreadUsers, thread_id \in ThreadIds,
          saving \in BOOLEAN, outcome \in Outcomes :
          /\ Len(storage_log) < MaxStorageOps
          /\ saving \/ outcome = "written"
          /\ set(user_id, thread_id, saving, outcome)
    \/ \E user_id \in ThreadUsers, saving \in BOOLEAN, outcome \in Outcomes :
          /\ Len(storage_log) < MaxStorageOps
          /\ saving \/ outcome = "written"
          /\ delete(user_id, saving, outcome)
    \/ \E saving \in BOOLEAN, outcome \in Outcomes :
          /\ Len(storage_log) < MaxStorageOps
          /\ saving \/ outcome = "written"
          /\ clear(saving, outcome)

SpecStorage == InitStored /\ [][NextStorage]_vars

(* Calls of get_assistant_response, one after the other, with every      *)
(* answer and every failure of the OpenAI service.  Each awaited call    *)
(* returns or raises and the event loop resumes the task, so a call that *)
(* can take a step takes it.                                             *)
AssistantStep ==
    \/ \E ok \in BOOLEAN : assistant_thread(ok)
    \/ \E listed \in RunStatuses \cup {"raised", "empty"} : assistant_runs_listed(listed)
    \/ \E polled \in RunStatuses \cup {"raised"} : assistant_active_polled(polled)
    \/ \E ok \in BOOLEAN : assistant_cancelled(ok)
    \/ \E ok \in BOOLEAN : assistant_message_added(ok)
    \/ \E created \in RunStatuses \cup {"raised"} : assistant_run_created(created)
    \/ \E polled \in RunStatuses \cup {"raised"} : assistant_run_polled(polled)
    \/ \E listed \in {"raised", "empty", "text"} : assistant_finished(listed)

NextAssistant ==
    \/ get_assistant_response
    \/ AssistantStep

SpecAssistant == Init /\ [][NextAssistant]_vars /\ WF_vars(AssistantStep)

(* The filter as test_duplicate_filter builds it and calls it, one call   *)
(* right after the other, every call logged                              *)
InitTest == InitFilter(TestTimeWindow, TestMaxMessagesPerUser)

TestMessages == {T_Abang, T_abcd, T_b, T_empty}

NextTest ==
    \/ \E message_text \in TestMessages :
          total_processed < MaxProcessedTest /\ is_duplicate_logged(TestUser, message_text)
    \/ get_stats

SpecTest == InitTest /\ [][NextTest]_vars

-----------------------------------------------------------------------------
(* Vocabulary of the properties *)

(* the step is a call is_duplicate(user_id, message_text) *)
IsDupStep(user_id, message_text) ==
    /\ total_processed' = total_processed + 1
    /\ lastCall' = Call("is_duplicate", user_id, message_text)

RetainedIn(um, user_id) == IF user_id \in DOMAIN um THEN um[user_id] ELSE <<>>

Retained(user_id) == RetainedIn(user_messages, user_id)

NotOlderThanWindow(e) == now - e.timestamp <= time_window

(* the entries of user_id that are not older than the time window *)
Live(user_id) == SelectSeq(Retained(user_id), NotOlderThanWindow)

Cached(um) == SumLen(um, DOMAIN um)

ContentHash(message_text) == md5(normalize_text(message_text))

WordSet(message_text) == Words(normalize_text(message_text))

JaccardNum(t1, t2) == Cardinality(WordSet(t1) \cap WordSet(t2))

JaccardDen(t1, t2) == Cardinality(WordSet(t1) \cup WordSet(t2))

JaccardAtThreshold(t1, t2) ==
    /\ JaccardDen(t1, t2) > 0
    /\ JaccardNum(t1, t2) * ThresholdDen = ThresholdNum * JaccardDen(t1, t2)

JaccardBelowThreshold(t1, t2) ==
    JaccardNum(t1, t2) * ThresholdDen < ThresholdNum * JaccardDen(t1, t2)
        \/ WordSet(t1) = {} \/ WordSet(t2) = {}

(* the log ends with calls k..Len(log) that are all is_duplicate(user_id, message_text) *)
RepeatsFrom(user_id, message_text, k) ==
    /\ k \in 1..Len(log)
    /\ \A j \in k..Len(log) :
          log[j].user_id = user_id /\ log[j].message_text = message_text

NeverLogged(message_text) == \A j \in 1..Len(log) : log[j].message_text # message_text

-----------------------------------------------------------------------------
(* C1: a content hash is in the global hash index if and only if some    *)
(* retained history entry of some actor carries it.                      *)
C1_IndexIffRetained ==
    message_hashes = UNION {HashesOf(user_messages[u]) : u \in DOMAIN user_messages}

(* C2, as stated: for a non-empty text T not seen before, is_duplicate(A,T) *)
(* returns false the first time and true on every immediately following     *)
(* call with the same T made within the time window.                        *)
C2_FirstFalseThenTrue ==
    [][\A u \in Users, t \in Texts :
          (IsDupStep(u, t) /\ t.chars # <<>>) =>
              /\ NeverLogged(t) => ret' = "False"
              /\ (\E k \in 1..Len(log) :
                      /\ RepeatsFrom(u, t, k)
                      /\ \A j \in 1..(k - 1) : log[j].message_text # t
                      /\ now - log[k].at <= time_window)
                 => ret' = "True"]_vars

(* C2, amended: for a text T whose normalized form is non-empty, whose hash *)
(* is not in the index and that is below the similarity threshold against   *)
(* every entry of A not older than the time window, is_duplicate(A,T)       *)
(* returns false; and once a call has returned false, every immediately     *)
(* following call with the same A and T made within the time window of that *)
(* call returns true.                                                       *)
C2_AdmittedThenSuppressed ==
    [][\A u \in Users, t \in Texts :
          (IsDupStep(u, t) /\ normalize_text(t) # <<>>) =>
              /\ (/\ ContentHash(t) \notin message_hashes
                  /\ \A i \in 1..Len(Live(u)) :
                        JaccardBelowThreshold(t, Live(u)[i].msg_text))
                 => ret' = "False"
              /\ (\E k \in 1..Len(log) :
                      /\ RepeatsFrom(u, t, k)
                      /\ log[k].ret = "False"
                      /\ now - log[k].at <= time_window)
                 => ret' = "True"]_vars

(* a repeat made one second after the admission, at the edge of the window, *)
(* was suppressed                                                           *)
C2_Witness ==
    /\ Len(log) >= 2
    /\ LET first == log[Len(log) - 1]
           second == log[Len(log)]
       IN  /\ first.user_id = second.user_id
           /\ first.message_text = second.message_text
           /\ first.ret = "False"
           /\ second.ret = "True"
           /\ second.at - first.at = time_window

(* C3: after one actor had max_messages_per_user + 1 distinct, pairwise   *)
(* non-similar messages admitted within the time window, an exact repeat  *)
(* of the 1st is admitted and an exact repeat of any other is suppressed. *)
C3_FirstEvictedOthersKept ==
    [][\A u \in Users, t \in Texts :
          (/\ IsDupStep(u, t)
           /\ Len(log) = max_messages_per_user + 1
           /\ \A j \in 1..Len(log) :
                 /\ log[j].user_id = u
                 /\ log[j].ret = "False"
                 /\ normalize_text(log[j].message_text) # <<>>
                 /\ now - log[j].at <= time_window) =>
              /\ t = log[1].message_text => ret' = "False"
              /\ (\E j \in 2..Len(log) : t = log[j].message_text) => ret' = "True"]_vars

(* C4: if the only earlier call is_duplicate(A,T) admitted T more than    *)
(* time_window seconds before this call, is_duplicate(A,T) returns false. *)
C4_ExpiredIsNew ==
    [][\A u \in Users, t \in Texts :
          (/\ IsDupStep(u, t)
           /\ \E k \in 1..Len(log) :
                 /\ log[k].user_id = u
                 /\ log[k].message_text = t
                 /\ log[k].ret = "False"
                 /\ normalize_text(t) # <<>>
                 /\ now - log[k].at > time_window
                 /\ \A j \in 1..Len(log) :
                       (log[j].user_id = u /\ log[j].message_text = t) => j = k)
          => ret' = "False"]_vars

HoldsTextOf(a, message_text, fresh) ==
    \E i \in 1..Len(Retained(a)) :
        /\ normalize_text(Retained(a)[i].msg_text) = normalize_text(message_text)
        /\ fresh => NotOlderThanWindow(Retained(a)[i])

(* C6, as stated: whenever some actor A retains an entry with the         *)
(* normalized text of T, is_duplicate(B,T) returns true for every actor B. *)
C6_SuppressedForEveryActor ==
    [][\A a \in Users, b \in Users, t \in Texts :
          (IsDupStep(b, t) /\ HoldsTextOf(a, t, FALSE)) => ret' = "True"]_vars

(* C6, amended: whenever some actor A retains an entry with the           *)
(* normalized text of T, is_duplicate(B,T) returns true for every actor B *)
(* other than A, also one with an empty history, and for A itself when    *)
(* that entry is not older than the time window.                          *)
C6_SuppressedAcrossActors ==
    [][\A a \in Users, b \in Users, t \in Texts :
          (IsDupStep(b, t) /\ HoldsTextOf(a, t, a = b)) => ret' = "True"]_vars

(* a caller with an empty history was suppressed for another actor's text *)
C6_Witness ==
    /\ lastCall.op = "is_duplicate"
    /\ ret = "True"
    /\ Retained(lastCall.user_id) = <<>>
    /\ \E a \in Users \ {lastCall.user_id} : HoldsTextOf(a, lastCall.message_text, FALSE)

(* C7, as stated: a message whose word-set Jaccard similarity to a       *)
(* retained entry of the same actor equals the threshold is suppressed;   *)
(* a message below the threshold against all of them, with a hash not in  *)
(* the index, is admitted.                                                *)
C7_AtThresholdSuppressed ==
    [][\A u \in Users, t \in Texts :
          IsDupStep(u, t) =>
              /\ (\E i \in 1..Len(Retained(u)) :
                      JaccardAtThreshold(t, Retained(u)[i].msg_text))
                 => ret' = "True"
              /\ (/\ ContentHash(t) \notin message_hashes
                  /\ \A i \in 1..Len(Retained(u)) :
                        JaccardBelowThreshold(t, Retained(u)[i].msg_text))
                 => ret' = "False"]_vars

(* C7, amended: the comparison is inclusive: a message whose word-set     *)
(* Jaccard similarity to a retained entry of the same actor that is not   *)
(* older than the time window equals the threshold is suppressed; a       *)
(* message below the threshold against all of these, with a hash not in   *)
(* the index, is admitted.                                                *)
C7_ThresholdInclusive ==
    [][\A u \in Users, t \in Texts :
          IsDupStep(u, t) =>
              /\ (\E i \in 1..Len(Live(u)) : JaccardAtThreshold(t, Live(u)[i].msg_text))
                 => ret' = "True"
              /\ (/\ ContentHash(t) \notin message_hashes
                  /\ \A i \in 1..Len(Live(u)) :
                        JaccardBelowThreshold(t, Live(u)[i].msg_text))
                 => ret' = "False"]_vars

(* a message sharing 4 of 5 words with the caller's entry, its hash not   *)
(* in the index, was suppressed                                           *)
C7_Witness ==
    /\ lastCall.op = "is_duplicate"
    /\ ret = "True"
    /\ ContentHash(lastCall.message_text) \notin message_hashes
    /\ \E i \in 1..Len(Live(lastCall.user_id)) :
          /\ JaccardAtThreshold(lastCall.message_text, Live(lastCall.user_id)[i].msg_text)
          /\ JaccardNum(lastCall.message_text, Live(lastCall.user_id)[i].msg_text) = 4
          /\ JaccardDen(lastCall.message_text, Live(lastCall.user_id)[i].msg_text) = 5

(* no entry was added to any history *)
NoEntryAdded ==
    \A v \in DOMAIN user_messages' :
        \A i \in 1..Len(user_messages'[v]) :
            \E j \in 1..Len(Retained(v)) : Retained(v)[j] = user_messages'[v][i]

(* C8, as stated: for a text whose normalized form is empty is_duplicate  *)
(* returns false, adds no entry and no hash, and leaves cached_messages   *)
(* and total_blocked unchanged.                                           *)
C8_EmptyChangesNothing ==
    [][\A u \in Users, t \in Texts :
          (IsDupStep(u, t) /\ normalize_text(t) = <<>>) =>
              /\ ret' = "False"
              /\ NoEntryAdded
              /\ message_hashes' \subseteq message_hashes
              /\ Cached(user_messages') = Cached(user_messages)
              /\ blocked_count' = blocked_count]_vars

(* C8, amended: for a text whose normalized form is empty is_duplicate    *)
(* returns false, adds no entry and no hash, leaves total_blocked and the *)
(* histories of the other actors unchanged, and removes from the caller's *)
(* history exactly the entries older than the time window, so that        *)
(* cached_messages never increases.                                       *)
C8_EmptyOnlyEvicts ==
    [][\A u \in Users, t \in Texts :
          (IsDupStep(u, t) /\ normalize_text(t) = <<>>) =>
              /\ ret' = "False"
              /\ NoEntryAdded
              /\ message_hashes' \subseteq message_hashes
              /\ blocked_count' = blocked_count
              /\ \A v \in Users \ {u} :
                    RetainedIn(user_messages', v) = RetainedIn(user_messages, v)
              /\ RetainedIn(user_messages', u) = Live(u)
              /\ Cached(user_messages') <= Cached(user_messages)]_vars

(* an empty message was let through while the filter held messages *)
C8_Witness ==
    /\ lastCall.op = "is_duplicate"
    /\ normalize_text(lastCall.message_text) = <<>>
    /\ lastCall.message_text.chars # <<>>
    /\ ret = "False"
    /\ Cached(user_messages) > 0
    /\ Retained(lastCall.user_id) # <<>>

(* the log is X, X, Y, Y, Y of the test's user, X and Y not similar *)
C9_Scenario(X, Y) ==
    /\ Len(log) = 5
    /\ time_window = TestTimeWindow
    /\ max_messages_per_user = TestMaxMessagesPerUser
    /\ \A j \in 1..5 : log[j].user_id = TestUser
    /\ <<log[1].message_text, log[2].message_text, log[3].message_text,
         log[4].message_text, log[5].message_text>> = <<X, X, Y, Y, Y>>
    /\ normalize_text(X) # <<>>
    /\ normalize_text(Y) # <<>>
    /\ normalize_text(X) # normalize_text(Y)
    /\ JaccardBelowThreshold(X, Y)

(* C9: on a fresh filter with time_window 60 and 5 messages per user the  *)
(* texts X, X, Y, Y, Y of one actor return false, true, false, true, true *)
(* and get_stats then reports 5 processed, 3 blocked, 1 actor, 2 cached.  *)
C9_TestScenario ==
    \A X \in TestMessages, Y \in TestMessages :
        C9_Scenario(X, Y) =>
            /\ <<log[1].ret, log[2].ret, log[3].ret, log[4].ret, log[5].ret>>
                  = <<"False", "True", "False", "True", "True">>
            /\ lastCall.op = "get_stats" =>
                  stats = [total_processed |-> 5, blocked_count |-> 3,
                           active_users |-> 1, cached_messages |-> 2]

(* get_stats was called after the five calls of the scenario *)
C9_Witness ==
    /\ lastCall.op = "get_stats"
    /\ \E X \in TestMessages, Y \in TestMessages : C9_Scenario(X, Y)

(* C10: get_stats reports as active_users the number of actors whose      *)
(* history holds at least one entry and as cached_messages the sum of the *)
(* lengths of all histories.                                              *)
C10_StatsCountNonEmpty ==
    lastCall.op = "get_stats" =>
        /\ stats.active_users =
              Cardinality({u \in DOMAIN user_messages : Len(user_messages[u]) >= 1})
        /\ stats.cached_messages = Cached(user_messages)

-----------------------------------------------------------------------------
(* the step is a call of the operation op of the filter *)
IsCallOf(op) == lastCall'.op = op /\ now' = now

(* C11: get_stats is read-only: a call leaves every history, the set of   *)
(* known actors, the hash index and both counters unchanged, and a call   *)
(* that follows another get_stats call returns the same values.          *)
C11_GetStatsReadOnly ==
    [][IsCallOf("get_stats") =>
          /\ user_messages' = user_messages
          /\ DOMAIN user_messages' = DOMAIN user_messages
          /\ message_hashes' = message_hashes
          /\ total_processed' = total_processed
          /\ blocked_count' = blocked_count
          /\ stats' = get_stats_value
          /\ lastCall.op = "get_stats" => stats' = stats]_vars

C11_Witness ==
    /\ lastCall.op = "get_stats"
    /\ stats = get_stats_value
    /\ stats.blocked_count >= 1
    /\ stats.cached_messages >= 1
    /\ stats.active_users = 2

(* C12: clear_user_cache(A) leaves A's history empty and the index free   *)
(* of every hash A's entries carried, and leaves both counters, every    *)
(* other actor's history and every hash carried by another actor's       *)
(* retained entry as they were; when A has no history nothing changes.   *)
C12_ClearUserCacheFrame ==
    [][\A a \in Users :
          (IsCallOf("clear_user_cache") /\ lastCall'.user_id = a) =>
              /\ RetainedIn(user_messages', a) = <<>>
              /\ message_hashes' \cap HashesOf(Retained(a)) = {}
              /\ total_processed' = total_processed
              /\ blocked_count' = blocked_count
              /\ \A b \in Users \ {a} :
                    /\ (b \in DOMAIN user_messages') = (b \in DOMAIN user_messages)
                    /\ RetainedIn(user_messages', b) = Retained(b)
                    /\ \A h \in HashesOf(Retained(b)) :
                          (h \in message_hashes') = (h \in message_hashes)
              /\ Retained(a) = <<>> =>
                    user_messages' = user_messages /\ message_hashes' = message_hashes]_vars

C12_Witness ==
    /\ lastCall = Call("clear_user_cache", 1, None)
    /\ 1 \in DOMAIN user_messages
    /\ Retained(1) = <<>>
    /\ Retained(2) # <<>>
    /\ HashesOf(Retained(2)) \subseteq message_hashes
    /\ blocked_count >= 1

ZeroStats ==
    [total_processed |-> 0, blocked_count |-> 0, active_users |-> 0, cached_messages |-> 0]

(* C13: after clear_all_cache all histories and the hash index are empty  *)
(* and both counters are 0; get_stats called next returns all zeros and   *)
(* is_duplicate called next with a text of non-empty normalized form      *)
(* returns false.                                                         *)
C13_ClearAllResets ==
    [][/\ IsCallOf("clear_all_cache") =>
              /\ DOMAIN user_messages' = {}
              /\ message_hashes' = {}
              /\ total_processed' = 0
              /\ blocked_count' = 0
       /\ (lastCall.op = "clear_all_cache" /\ IsCallOf("get_stats")) => stats' = ZeroStats
       /\ \A u \in Users, t \in Texts :
              (lastCall.op = "clear_all_cache" /\ IsDupStep(u, t)
                    /\ normalize_text(t) # <<>>) => ret' = "False"]_vars

(* clear_all_cache was the last call, made after time had passed *)
C13_Witness ==
    /\ lastCall.op = "clear_all_cache"
    /\ now >= 1
    /\ user_messages = EmptyDict
    /\ message_hashes = {}
    /\ get_stats_value = ZeroStats

(* the step is a call get_user_recent_messages(user_id, limit) *)
IsRecentStep(user_id, limit) ==
    /\ IsCallOf("get_user_recent_messages")
    /\ lastCall'.user_id = user_id
    /\ recent'.limit = limit

Min(a, b) == IF a < b THEN a ELSE b

(* the last k elements of list, oldest first *)
LastOf(list, k) == SubSeq(list, Len(list) - k + 1, Len(list))

(* C14: for every actor and every limit >= 0, limit = 0 included,          *)
(* get_user_recent_messages returns at most limit entries, which are the  *)
(* last min(limit, history length) retained entries of the actor, oldest  *)
(* first.                                                                 *)
C14_AtMostLimitLastEntries ==
    [][\A u \in Users, l \in Limits :
          IsRecentStep(u, l) =>
              /\ Len(recent'.messages) <= l
              /\ recent'.messages = LastOf(Retained(u), Min(l, Len(Retained(u))))]_vars

(* C15: get_user_recent_messages for an actor that never sent a message   *)
(* returns an empty sequence and changes no state: no actor record is     *)
(* created, so get_stats is the same before and after.                    *)
C15_UnknownActorUntouched ==
    [][\A u \in Users, l \in Limits :
          (IsRecentStep(u, l) /\ u \notin DOMAIN user_messages) =>
              /\ recent'.messages = <<>>
              /\ u \notin DOMAIN user_messages'
              /\ filterState' = filterState
              /\ get_stats_value' = get_stats_value]_vars

C15_Witness ==
    /\ lastCall = Call("get_user_recent_messages", 2, None)
    /\ recent.limit >= 1
    /\ recent.messages = <<>>
    /\ 2 \notin DOMAIN user_messages
    /\ Retained(1) # <<>>

(* C16: total_processed and blocked_count never decrease across a step    *)
(* other than clear_all_cache: is_duplicate, get_stats, clear_user_cache  *)
(* and get_user_recent_messages never lower either counter.               *)
C16_CountersNeverDecrease ==
    [][~IsCallOf("clear_all_cache") =>
          /\ total_processed' >= total_processed
          /\ blocked_count' >= blocked_count]_vars

C16_Witness ==
    /\ lastCall.op \in {"clear_user_cache", "get_user_recent_messages", "get_stats"}
    /\ total_processed >= 2
    /\ blocked_count >= 1

(* C17: is_duplicate raises no error for malformed input: for a null      *)
(* message and for a non-string message such as a number it treats the    *)
(* input as empty, returns false and records nothing.                     *)
C17_MalformedIsEmpty ==
    [][\A u \in Users, m \in {None, Int123} :
          IsDupStep(u, m) =>
              /\ ret' = "False"
              /\ NoEntryAdded
              /\ message_hashes' \subseteq message_hashes
              /\ blocked_count' = blocked_count]_vars

(* the step is a call is_duplicate(user_id, message_text) that admits the text *)
Admits(user_id, message_text) ==
    /\ IsDupStep(user_id, message_text)
    /\ ret' = "False"
    /\ normalize_text(message_text) # <<>>

AdmittedEntry(message_text) == Entry(now, ContentHash(message_text), message_text)

WithinCap == \A u \in DOMAIN user_messages' : Len(user_messages'[u]) <= max_messages_per_user

(* C18, as stated: each actor's history holds at most                     *)
(* max_messages_per_user entries, and admitting a message when the        *)
(* history is at the cap drops exactly the oldest entry of that actor and *)
(* keeps the others in order.                                             *)
C18_AtCapDropsOldest ==
    [][/\ WithinCap
       /\ \A u \in Users, t \in Texts :
              (Admits(u, t) /\ Len(Retained(u)) = max_messages_per_user) =>
                  user_messages'[u] = Append(Tail(Retained(u)), AdmittedEntry(t))]_vars

(* C18, amended: each actor's history holds at most max_messages_per_user *)
(* entries; an admission first drops the actor's entries older than the   *)
(* time window, and when the remaining history is at the cap it drops     *)
(* exactly the oldest remaining entry and keeps the others in order.      *)
C18_AtCapDropsOldestLive ==
    [][/\ WithinCap
       /\ \A u \in Users, t \in Texts :
              Admits(u, t) =>
                  user_messages'[u] =
                      Append(IF Len(Live(u)) = max_messages_per_user
                             THEN Tail(Live(u)) ELSE Live(u),
                             AdmittedEntry(t))]_vars

(* the last call admitted a text into a full history none of whose        *)
(* entries was older than the window: the index holds the hash of the     *)
(* dropped entry                                                          *)
C18_Witness ==
    /\ lastCall.op = "is_duplicate"
    /\ ret = "False"
    /\ LET u == lastCall.user_id
       IN  /\ Len(Retained(u)) = max_messages_per_user
           /\ Retained(u)[Len(Retained(u))] = AdmittedEntry(lastCall.message_text)
           /\ \E h \in message_hashes :
                 \A v \in DOMAIN user_messages : h \notin HashesOf(user_messages[v])

-----------------------------------------------------------------------------
(* C19: when is_duplicate returns true for a private message the router   *)
(* performs no further action for it: no classification, no reply, and    *)
(* all router state, processing_users included, as it was before the      *)
(* message arrived.                                                       *)
C19_DuplicateLeavesRouterAsBefore ==
    [][\A i \in 1..Len(handlers') :
          (handlers'[i].kind = "private" /\ handlers'[i].dup = "True") =>
              /\ ~handlers'[i].classified
              /\ ~handlers'[i].replied
              /\ handlers'[i].pc = "done"
              /\ i > Len(handlers) => processing_users' = processing_users]_vars

(* C20: for every inbound message the router handles, private message or  *)
(* group mention, classification and reply generation start only after    *)
(* is_duplicate was called for that message and returned false.           *)
C20_ClassifiedOnlyAfterFilter ==
    \A i \in 1..Len(handlers) :
        (handlers[i].classified \/ handlers[i].replied) => handlers[i].dup = "False"

-----------------------------------------------------------------------------
(* the step starts a handler call, which becomes the last of handlers *)
Arrives == Len(handlers') = Len(handlers) + 1

Arrived == handlers'[Len(handlers')]

(* handler call i is suspended at an await after its is_duplicate call,   *)
(* the last call made on the filter, returned false                      *)
SuspendedAfterAdmission(i) ==
    /\ handlers[i].kind = "private"
    /\ handlers[i].pc # "done"
    /\ handlers[i].dup = "False"
    /\ lastCall = Call("is_duplicate", handlers[i].user_id, handlers[i].text)

(* the filter after the step is the filter after the suspended handler's  *)
(* call followed by the arriving handler's call: the second text is       *)
(* suppressed, nothing is added and nothing of the first user is changed  *)
SecondSuppressed(i) ==
    /\ Arrived.dup = "True"
    /\ ret' = "True"
    /\ message_hashes' = message_hashes
    /\ NoEntryAdded
    /\ user_messages'[handlers[i].user_id] = user_messages[handlers[i].user_id]
    /\ blocked_count' = blocked_count + 1
    /\ total_processed' = total_processed + 1

(* a step that is not the call of a handler or of a command leaves the    *)
(* filter as it is: no filter operation spans an await                    *)
ResumptionsLeaveFilter ==
    (lastCall' = lastCall /\ ~Arrives) => filterState' = filterState

(* C21, as stated: filter operations are atomic steps of the handlers;    *)
(* when two handlers of different users deliver texts with the same       *)
(* normalized form concurrently, exactly one of the two is_duplicate      *)
(* calls returns false and the filter is as after the two calls made in   *)
(* sequence.                                                              *)
C21_ExactlyOneAdmitted ==
    [][/\ ResumptionsLeaveFilter
       /\ \A i \in 1..Len(handlers) :
              (/\ Arrives
               /\ Arrived.kind = "private"
               /\ Arrived.dup # "None"
               /\ Arrived.user_id # handlers[i].user_id
               /\ SuspendedAfterAdmission(i)
               /\ normalize_text(Arrived.text) = normalize_text(handlers[i].text))
              => SecondSuppressed(i)]_vars

(* C21, amended: the same for texts whose common normalized form is not   *)
(* empty.                                                                 *)
C21_ExactlyOneAdmittedNonEmpty ==
    [][/\ ResumptionsLeaveFilter
       /\ \A i \in 1..Len(handlers) :
              (/\ Arrives
               /\ Arrived.kind = "private"
               /\ Arrived.dup # "None"
               /\ Arrived.user_id # handlers[i].user_id
               /\ SuspendedAfterAdmission(i)
               /\ normalize_text(Arrived.text) = normalize_text(handlers[i].text)
               /\ normalize_text(Arrived.text) # <<>>)
              => SecondSuppressed(i)]_vars

(* two handlers of different users with different texts of one normalized *)
(* form, the first still suspended when the second was suppressed         *)
C21_Witness ==
    /\ Len(handlers) = 2
    /\ handlers[1].kind = "private" /\ handlers[2].kind = "private"
    /\ handlers[1].user_id # handlers[2].user_id
    /\ handlers[1].text # handlers[2].text
    /\ normalize_text(handlers[1].text) = normalize_text(handlers[2].text)
    /\ handlers[1].pc = "detect" /\ handlers[1].dup = "False"
    /\ handlers[2].dup = "True"
    /\ lastCall = Call("is_duplicate", handlers[2].user_id, handlers[2].text)
    /\ Cached(user_messages) = 1

-----------------------------------------------------------------------------
(* the step is a call that may remove entries of user_id: is_duplicate or *)
(* clear_user_cache of that user, or clear_all_cache                      *)
MayEvict(user_id) ==
    \/ \E t \in Texts \cup {None, Int123} : IsDupStep(user_id, t)
    \/ IsCallOf("clear_user_cache") /\ lastCall'.user_id = user_id
    \/ IsCallOf("clear_all_cache")

(* C22: eviction is lazy and per-actor: is_duplicate(A, .) never removes  *)
(* or changes an entry of another actor B, so a stale entry of an idle B  *)
(* stays retained, and its hash stays in the index, until B calls         *)
(* is_duplicate or clear_user_cache(B) or clear_all_cache is called.      *)
C22_OthersEntriesStay ==
    [][\A b \in Users :
          ~MayEvict(b) =>
              /\ RetainedIn(user_messages', b) = Retained(b)
              /\ HashesOf(Retained(b)) \cap message_hashes \subseteq message_hashes']_vars

(* user 2's entry is older than the window and still retained and indexed *)
(* after user 1 had a text admitted                                       *)
C22_Witness ==
    /\ lastCall.op = "is_duplicate"
    /\ lastCall.user_id = 1
    /\ ret = "False"
    /\ Len(Retained(1)) = 1
    /\ Retained(1)[1].timestamp = now
    /\ Len(Retained(2)) = 1
    /\ now - Retained(2)[1].timestamp > time_window
    /\ Retained(2)[1].msg_hash \in message_hashes

-----------------------------------------------------------------------------
OlderThanWindow(e) == now - e.timestamp > time_window

(* the entries of user_id that are older than the time window *)
Stale(user_id) == SelectSeq(Retained(user_id), OlderThanWindow)

(* |intersection| / |union| of the word sets is at or above the threshold *)
JaccardReachesThreshold(t1, t2) ==
    /\ JaccardDen(t1, t2) > 0
    /\ JaccardNum(t1, t2) * ThresholdDen >= ThresholdNum * JaccardDen(t1, t2)

(* C23: for a text T with non-empty normalized form, is_duplicate(A,T)    *)
(* returns true if and only if, after the eviction of A's stale entries,  *)
(* the hash of normalize(T) is in the hash index or some retained entry   *)
(* of A has Jaccard word-set similarity to T at or above the threshold;   *)
(* entries of other actors do not count for the similarity.               *)
C23_TrueIffHashOrSimilar ==
    [][\A u \in Users, t \in Texts :
          (IsDupStep(u, t) /\ normalize_text(t) # <<>>) =>
              (ret' = "True" <=>
                  \/ ContentHash(t) \in message_hashes \ HashesOf(Stale(u))
                  \/ \E i \in 1..Len(Live(u)) :
                        JaccardReachesThreshold(t, Live(u)[i].msg_text))]_vars

(* a text whose hash is not in the index was suppressed for its           *)
(* similarity to an entry of the caller while the other user holds        *)
(* entries too                                                            *)
C23_Witness ==
    /\ lastCall.op = "is_duplicate"
    /\ ret = "True"
    /\ ContentHash(lastCall.message_text) \notin message_hashes
    /\ \E v \in Users \ {lastCall.user_id} : Retained(v) # <<>>

-----------------------------------------------------------------------------
IsEntryOf(e, dq) == \E i \in 1..Len(dq) : dq[i] = e

SortedByTimestamp(dq) ==
    \A i, j \in 1..Len(dq) : i < j => dq[i].timestamp <= dq[j].timestamp

(* C24, as stated: right after an is_duplicate(A, .) call made at time    *)
(* now no retained entry of A is older than time_window, A's entries      *)
(* being in non-decreasing timestamp order, and an entry whose age is     *)
(* exactly time_window is still retained.                                 *)
C24_NoStaleBoundaryKept ==
    [][\A u \in Users, t \in Texts :
          IsDupStep(u, t) =>
              /\ SortedByTimestamp(user_messages'[u])
              /\ \A i \in 1..Len(user_messages'[u]) :
                    now - user_messages'[u][i].timestamp <= time_window
              /\ \A i \in 1..Len(Retained(u)) :
                    now - Retained(u)[i].timestamp = time_window =>
                        IsEntryOf(Retained(u)[i], user_messages'[u])]_vars

(* C24, amended: the same, an entry whose age is exactly time_window      *)
(* being retained unless it is the oldest entry of a full history into    *)
(* which the call admits a message.                                       *)
C24_NoStaleBoundaryNotEvicted ==
    [][\A u \in Users, t \in Texts :
          IsDupStep(u, t) =>
              /\ SortedByTimestamp(user_messages'[u])
              /\ \A i \in 1..Len(user_messages'[u]) :
                    now - user_messages'[u][i].timestamp <= time_window
              /\ \A i \in 1..Len(Retained(u)) :
                    now - Retained(u)[i].timestamp = time_window =>
                        \/ IsEntryOf(Retained(u)[i], user_messages'[u])
                        \/ /\ Admits(u, t)
                           /\ Len(Live(u)) = max_messages_per_user
                           /\ Retained(u)[i] = Live(u)[1]]_vars

(* after a call of the user at time 2 an entry exactly time_window old is *)
(* retained next to the entry the call admitted                           *)
C24_Witness ==
    /\ lastCall.op = "is_duplicate"
    /\ now = 2
    /\ LET u == lastCall.user_id
       IN  /\ Len(Retained(u)) = 2
           /\ now - Retained(u)[1].timestamp = time_window
           /\ Retained(u)[2].timestamp = now
           /\ Cardinality(message_hashes) = 2
           /\ total_processed = 3

-----------------------------------------------------------------------------
(* C25: capacity eviction happens only on admission: an is_duplicate call *)
(* that returns true or receives empty input adds no entry and no hash    *)
(* and removes from the caller's history only entries older than the time *)
(* window; every retained non-stale entry and its hash are unchanged.     *)
C25_NoCapacityEvictionWithoutAdmission ==
    [][\A u \in Users, t \in Texts \cup {None} :
          (IsDupStep(u, t) /\ (ret' = "True" \/ normalize_text(t) = <<>>)) =>
              /\ user_messages'[u] = Live(u)
              /\ \A v \in Users \ {u} :
                    RetainedIn(user_messages', v) = Retained(v)
              /\ message_hashes' \subseteq message_hashes
              /\ message_hashes \ message_hashes' \subseteq HashesOf(Stale(u))
              /\ \A v \in Users :
                    HashesOf(Live(v)) \cap message_hashes \subseteq message_hashes']_vars

(* a duplicate was suppressed while the caller's history was full of      *)
(* entries within the window                                              *)
C25_Witness ==
    /\ lastCall.op = "is_duplicate"
    /\ ret = "True"
    /\ LET u == lastCall.user_id
       IN  /\ Len(Retained(u)) = max_messages_per_user
           /\ Live(u) = Retained(u)
           /\ HashesOf(Retained(u)) \subseteq message_hashes

-----------------------------------------------------------------------------
(* C26: _calculate_similarity returns 0 whenever the word set of either   *)
(* normalized text is empty, also for two non-empty texts made of         *)
(* punctuation only; otherwise it returns |intersection| / |union| of the *)
(* two word sets, which is 1 exactly when the word sets are equal.        *)
C26_SimilarityIsJaccard ==
    applied.fn = "_calculate_similarity" =>
        LET w1 == WordSet(applied.text1)
            w2 == WordSet(applied.text2)
            num == applied.result[1]
            den == applied.result[2]
        IN  IF w1 = {} \/ w2 = {}
            THEN num = 0
            ELSE /\ num * Cardinality(w1 \cup w2) = Cardinality(w1 \cap w2) * den
                 /\ (num = den) <=> (w1 = w2)

-----------------------------------------------------------------------------
NonEmptyWord(w) == w # <<>>

(* the words of a text, lowercased and without their punctuation, the     *)
(* words made of punctuation only left out                                *)
BareWords(text) ==
    LET words == split(text.chars)
    IN  SelectSeq([i \in 1..Len(words) |-> re_sub(lower(words[i]))], NonEmptyWord)

WellNormalized(n) ==
    /\ \A i \in 1..Len(n) : LowerChar(n[i]) = n[i]
    /\ \A i \in 1..Len(n) : IsWordChar(n[i]) \/ IsSpace(n[i])
    /\ n # <<>> => ~IsSpace(n[1]) /\ ~IsSpace(n[Len(n)])
    /\ \A i \in 1..(Len(n) - 1) : ~(IsSpace(n[i]) /\ IsSpace(n[i + 1]))

(* C27: _normalize_text yields a text with no uppercase letter, no        *)
(* punctuation, no leading or trailing whitespace and no run of two or    *)
(* more whitespace characters; it is idempotent; and two texts that       *)
(* differ only in punctuation, case or spacing, such as 'a , b' and       *)
(* 'a b', get the same content hash.                                      *)
C27_NormalizedAndIdempotent ==
    applied.fn = "_normalize_text" =>
        LET n1 == applied.result[1]
            n2 == applied.result[2]
        IN  /\ WellNormalized(n1)
            /\ WellNormalized(n2)
            /\ (IF n1 = <<>> THEN <<>> ELSE normalize_str(n1)) = n1
            /\ BareWords(applied.text1) = BareWords(applied.text2) => md5(n1) = md5(n2)

-----------------------------------------------------------------------------
(* handler call i is a handle_private_message call of user_id that is     *)
(* suspended at an await                                                  *)
RunningFor(hs, i, user_id) ==
    /\ hs[i].kind = "private"
    /\ hs[i].user_id = user_id
    /\ hs[i].pc # "done"

(* C28: every user added to processing_users by handle_private_message is *)
(* removed again by the time that handler call finishes, on every path:   *)
(* a user is in the set only while a handler call of the user is running. *)
C28_ProcessingUsersHaveRunningHandler ==
    \A u \in processing_users : \E i \in 1..Len(handlers) : RunningFor(handlers, i, u)

(* C29: at most one handle_private_message call per user is past the      *)
(* processing_users guard; a private message of a user that arrives while *)
(* a call of that user is still running is dropped without a call of      *)
(* is_duplicate; calls of different users run concurrently.               *)
C29_OneHandlerPerUser ==
    [][/\ \A i, j \in 1..Len(handlers') :
              (i < j /\ handlers'[i].kind = "private" /\ handlers'[i].pc # "done")
                  => ~RunningFor(handlers', j, handlers'[i].user_id)
       /\ \A u \in Users :
              (/\ Arrives
               /\ Arrived.kind = "private"
               /\ Arrived.user_id = u
               /\ \E i \in 1..Len(handlers) : RunningFor(handlers, i, u))
              => /\ Arrived.pc = "done"
                 /\ Arrived.dup = "None"
                 /\ ~Arrived.classified
                 /\ filterState' = filterState
                 /\ lastCall' = lastCall]_vars

(* while the first call of user 1 is suspended, a second text of user 1   *)
(* was dropped and a call of user 2 runs                                  *)
C29_Witness ==
    /\ Len(handlers) = 3
    /\ RunningFor(handlers, 1, 1)
    /\ handlers[2].kind = "private" /\ handlers[2].user_id = 1
    /\ handlers[2].text # None
    /\ handlers[2].pc = "done" /\ handlers[2].dup = "None"
    /\ RunningFor(handlers, 3, 2)
    /\ total_processed = 2

-----------------------------------------------------------------------------
(* the places <<user, index>> of the retained entries *)
Places ==
    UNION {{<<u, i>> : i \in 1..Len(user_messages[u])} : u \in DOMAIN user_messages}

EntryAt(p) == user_messages[p[1]][p[2]]

(* C30: in every state reached by sequential calls every retained entry's *)
(* hash is in the hash index, no two retained entries, of one actor or of *)
(* two, carry the same content hash, and every retained entry has a       *)
(* non-empty normalized text; so the index loses no hash that a retained  *)
(* entry still carries.                                                   *)
C30_EntriesIndexedAndDistinct ==
    /\ \A p \in Places :
          /\ EntryAt(p).msg_hash \in message_hashes
          /\ normalize_text(EntryAt(p).msg_text) # <<>>
          /\ EntryAt(p).msg_hash = ContentHash(EntryAt(p).msg_text)
    /\ \A p, q \in Places : EntryAt(p).msg_hash = EntryAt(q).msg_hash => p = q

(* both users hold entries, one admitted at time 0 and older than the     *)
(* window, one admitted at time 2, and the index holds their two hashes   *)
C30_Witness ==
    /\ Retained(1) # <<>>
    /\ Retained(2) # <<>>
    /\ now = 2
    /\ \E u \in Users : Retained(u)[1].timestamp = 2
    /\ \E u \in Users : Retained(u)[1].timestamp = 0
    /\ Cardinality(message_hashes) = 2

-----------------------------------------------------------------------------
(* the log holds a call of user_id with message_text that was admitted *)
AdmittedEarlier(user_id, message_text) ==
    \E j \in 1..Len(log) :
        /\ log[j].user_id = user_id
        /\ log[j].message_text = message_text
        /\ log[j].ret = "False"

(* no user other than user_id made a call with message_text *)
NoOtherSent(user_id, message_text) ==
    \A j \in 1..Len(log) :
        log[j].message_text = message_text => log[j].user_id = user_id

(* C31: right after clear_user_cache(A), when no other actor sent the     *)
(* text T, is_duplicate(A,T) returns false for every T that A had         *)
(* admitted earlier, also one already pushed out of A's history by the    *)
(* per-actor cap.                                                         *)
C31_RepeatAdmittedAfterClear ==
    [][\A u \in Users, t \in Texts :
          (/\ IsDupStep(u, t)
           /\ lastCall = Call("clear_user_cache", u, None)
           /\ AdmittedEarlier(u, t)
           /\ NoOtherSent(u, t)) =>
              ret' = "False"]_vars

-----------------------------------------------------------------------------
(* the calls of the log that returned result *)
LoggedWith(result) == {j \in 1..Len(log) : log[j].ret = result}

(* C32: every is_duplicate call adds exactly 1 to total_processed, and    *)
(* adds 1 to blocked_count when it returns true and 0 when it returns     *)
(* false; 0 <= blocked_count <= total_processed in every state, and       *)
(* total_processed - blocked_count is the number of calls that returned   *)
(* false since the last clear_all_cache.                                  *)
C32_CountersCountCalls ==
    /\ [][\A u \in Users, m \in CountedMessages :
             lastCall' = Call("is_duplicate", u, m) /\ log' # log =>
                 /\ total_processed' = total_processed + 1
                 /\ ret' = "True" => blocked_count' = blocked_count + 1
                 /\ ret' = "False" => blocked_count' = blocked_count]_vars
    /\ [](/\ 0 <= blocked_count
          /\ blocked_count <= total_processed
          /\ total_processed - blocked_count = Cardinality(LoggedWith("False")))

-----------------------------------------------------------------------------
(* the k-th thing handle_tz_file_request sent is the TZ file, to user_id *)
FileSentTo(k, user_id) ==
    tz_outbox[k].what = "file" /\ tz_outbox[k].user_id = user_id

(* C33: under any interleaving of requests from several users, a user to  *)
(* whom the TZ file was sent is not sent the file again by                *)
(* handle_tz_file_request within the next 30 seconds, also when another   *)
(* user requested the file in between.                                    *)
C33_NoSecondFileWithinWindow ==
    \A u \in Users :
        \A j \in 1..Len(tz_outbox), k \in 1..Len(tz_outbox) :
            (j < k /\ FileSentTo(j, u) /\ FileSentTo(k, u)) =>
                tz_outbox[k].at - tz_outbox[j].at >= TzWindow

-----------------------------------------------------------------------------
(* C34: under any interleaving of handlers for the same user,             *)
(* get_or_create_thread creates at most one thread per user while a       *)
(* thread id is stored: a stored thread id is never overwritten by a      *)
(* second creation, and all callers for that user get the same thread id. *)
C34_OneThreadPerUser ==
    /\ [][\A u \in DOMAIN cache : u \in DOMAIN cache' /\ cache'[u] = cache[u]]_vars
    /\ [](\A i \in 1..Len(thread_calls), j \in 1..Len(thread_calls) :
             (/\ thread_calls[i].user_id = thread_calls[j].user_id
              /\ thread_calls[i].pc = "done"
              /\ thread_calls[j].pc = "done") =>
                 thread_calls[i].thread_id = thread_calls[j].thread_id)

-----------------------------------------------------------------------------
(* every set, delete and clear so far was called with save=True, and      *)
(* every write it made succeeded                                          *)
AllSavedAndWritten ==
    \A k \in 1..Len(storage_log) :
        storage_log[k].op \in {"set", "delete", "clear"} =>
            storage_log[k].save /\ storage_log[k].outcome \in {"written", "none"}

(* the call changes what is stored for user_id *)
Changes(call, user_id) ==
    \/ call.op = "clear"
    \/ call.op \in {"set", "delete"} /\ call.user_id = user_id

(* get, as call k of the log, returns what the latest set, delete or      *)
(* clear before it left for the user                                      *)
ReturnsMostRecent(k) ==
    LET u == storage_log[k].user_id
        before == {j \in 1..(k - 1) : Changes(storage_log[j], u)}
    IN  before # {} =>
            LET last == CHOOSE j \in before : \A i \in before : i <= j
            IN  storage_log[k].result =
                    IF storage_log[last].op = "set"
                    THEN storage_log[last].thread_id ELSE NoThread

(* the step is a call delete(user_id) for a user that has no stored id *)
IsDeleteOfUnknown(user_id) ==
    /\ user_id \notin DOMAIN cache
    /\ Len(storage_log') = Len(storage_log) + 1
    /\ storage_log'[Len(storage_log')].op = "delete"
    /\ storage_log'[Len(storage_log')].user_id = user_id

(* C37: after any sequence of set, delete and clear calls with save=True  *)
(* in which every write succeeds, the file read back equals the mapping   *)
(* in memory; get(u) returns the id most recently set for u, or None      *)
(* after delete(u) or clear; delete of an unknown user changes nothing    *)
(* and writes nothing.                                                    *)
C37_SnapshotEqualsMemory ==
    /\ [](AllSavedAndWritten => load(file) = cache)
    /\ [](\A k \in 1..Len(storage_log) :
             storage_log[k].op = "get" => ReturnsMostRecent(k))
    /\ [][\A u \in ThreadUsers :
             IsDeleteOfUnknown(u) =>
                 cache' = cache /\ file' = file /\ writes' = writes]_vars

(* a set, a delete that removes a stored id and a delete of an unknown    *)
(* user, all saved: two writes, and the file holds the empty mapping      *)
C37_Witness ==
    /\ AllSavedAndWritten
    /\ Len(storage_log) = 3
    /\ storage_log[1].op = "set"
    /\ storage_log[2].op = "delete" /\ storage_log[2].outcome = "written"
    /\ storage_log[3].op = "delete" /\ storage_log[3].outcome = "none"
    /\ writes = 2
    /\ file = JsonFile(<<>>)
    /\ cache = EmptyDict

-----------------------------------------------------------------------------
(* C35: get_assistant_response tries to add the user message at most 3    *)
(* times and stops after the first success; it creates a run only after   *)
(* a successful add; when all 3 attempts fail it creates no run and       *)
(* returns an error string; it never raises to its caller.                *)
C35_AddRetriedThenRun ==
    LET adds == assistant.add_log
    IN  /\ Len(adds) <= MaxRetries
        /\ \A k \in 1..(Len(adds) - 1) : adds[k] = "failed"
        /\ assistant.runs_created <= 1
        /\ assistant.runs_created = 1 => adds # <<>> /\ adds[Len(adds)] = "ok"
        /\ (Len(adds) = MaxRetries /\ adds[MaxRetries] = "failed") =>
               /\ assistant.runs_created = 0
               /\ assistant.pc = "returned"
               /\ assistant.result = "error"
        /\ assistant.result \in {"none", "text", "assistant_error", "error"}

(* three failed attempts, no run, the error text returned *)
C35_Witness ==
    /\ assistant.add_log = <<"failed", "failed", "failed">>
    /\ assistant.runs_created = 0
    /\ assistant.pc = "returned"
    /\ assistant.result = "error"

(* a call of get_assistant_response is under way *)
UnderWay == assistant.pc \notin {"idle", "returned"}

(* C36: get_assistant_response always terminates: it polls a run found    *)
(* active at most 30 times, then requests its cancellation, and its own   *)
(* run at most 60 times; it returns the cleaned text only for a run with  *)
(* status 'completed', and an error string for a run still pending after  *)
(* 60 polls or ended in another status.                                   *)
C36_PollsBoundedAndReturns ==
    /\ [](/\ assistant.polls_active <= ActiveRunTimeout
          /\ assistant.polls_own <= RunTimeout
          /\ assistant.cancel_requested => assistant.polls_active = ActiveRunTimeout
          /\ (assistant.polls_active = ActiveRunTimeout
                 /\ ~assistant.poll_raised
                 /\ assistant.pc # "cancel") => assistant.cancel_requested
          /\ assistant.result = "text" => assistant.status = "completed"
          /\ (assistant.pc = "returned" /\ assistant.runs_created = 1
                 /\ assistant.status # "completed") =>
                 assistant.result \in {"assistant_error", "error"})
    /\ UnderWay ~> assistant.pc = "returned"

(* a run found active is polled 30 times and its cancellation requested;  *)
(* the new run is still pending after 60 polls, and the error text with   *)
(* its status is returned                                                 *)
C36_Witness ==
    /\ assistant.pc = "returned"
    /\ assistant.polls_active = ActiveRunTimeout
    /\ assistant.cancel_requested
    /\ assistant.polls_own = RunTimeout
    /\ assistant.status \in Active
    /\ assistant.result = "assistant_error"

====
